---------------------------- MODULE Spec2Model ----------------------------
(***************************************************************************)
(* A model of spelchek: the spellchecker engine (src/spellchecker.rs,      *)
(* src/spellchecker/algorithm.rs) and the application state that edits the *)
(* text buffer (src/app_state.rs).                                         *)
(*                                                                         *)
(* A Rust `char` is modelled by its Unicode code point (an integer) and a  *)
(* Rust `String`/`&str` by the sequence of its chars.  Byte lengths and    *)
(* byte offsets, which the code uses when it edits the buffer, are          *)
(* computed from the UTF-8 encoding of the chars.                          *)
(* Option<usize> is modelled by a sequence: <<>> is None, <<i>> is Some(i).*)
(***************************************************************************)
EXTENDS Integers, Sequences, FiniteSets, TLC

VARIABLES
    file_buffer,              \* AppState.file_buffer
    selected_misspelling,     \* AppState.selected_misspelling
    selected_suggestion,      \* AppState.selected_suggestion
    misspellings_list_state,  \* AppState.misspellings_list_state (its selection)
    dict,                     \* Spellchecker.dict
    suggestion_dict,          \* Spellchecker.suggestion_dict (raw lines)
    misspellings,             \* Spellchecker.misspellings
    failed,                   \* TRUE once an operation has panicked (the process is gone)
    checks,                   \* how many times check has run (saturating at 2)
    op,                       \* the operation that produced this state
    prev,                     \* the state the operation started from
    args,                     \* the arguments of a function called on its own
    ret                       \* what that function returned

vars == <<file_buffer, selected_misspelling, selected_suggestion,
          misspellings_list_state, dict, suggestion_dict, misspellings,
          failed, checks, op, prev, args, ret>>

-----------------------------------------------------------------------------
(* Bounds of the model.                                                    *)

\* The initial buffer of the editing model holds at most MaxWords words.
MaxWords == 3

\* check_spelling is only run while the list would stay within this size.
MaxMisspellings == 3

\* The buffers of the tokenizer model have at most MaxLen characters.
MaxLen == 4

\* The dict.txt files of the loading model have at most MaxDict lines.
MaxDict == 3

\* The words looked up in the loading model have at most MaxWordLen chars.
MaxWordLen == 2

\* The suggestion_dict.txt files of the corpus model have at most MaxCorpus
\* lines.
MaxCorpus == 2

\* The strings of the distance model have at most MaxStr chars.
MaxStr == 3

\* The suggestion_dict.txt files of the ranking model are runs of lines out
\* of a list of MaxEntries lines.
MaxEntries == 12

\* The priorities of the ordering model have edit distances 0..MaxDist.
MaxDist == 2

\* The indices a caller passes or stores in the index model are 0..MaxIndex.
MaxIndex == 3

\* The strings of the case model have at most MaxCase chars.
MaxCase == 2

\* The misspellings of the suggestion-index model have at most
\* MaxSuggestions suggestions.
MaxSuggestions == 5

-----------------------------------------------------------------------------
(* Option<usize>                                                           *)

None == <<>>

Some(i) == <<i>>

IsSome(o) == o # <<>>

Unwrap(o) == o[1]

\* usize::MAX, scaled to the integers of the model checker: a value larger
\* than every index and length of the model, with wrap-around at USIZE_MAX + 1.
USIZE_MAX == 1073741823

\* A signed result stored into a usize (`as usize`): reduced modulo 2^w.
AsUsize(n) == n % (USIZE_MAX + 1)

-----------------------------------------------------------------------------
(* Characters and strings                                                  *)

\* One-character names for the code points used to write the model's texts.
\* "e*" is U+00E9 (e acute), "E*" is U+00C9, "_" is U+00A0 (no-break space).
Ord ==
    [c \in {"a", "e", "h", "i", "s", "t", "A", "E", "H", "I", "S", "T",
            " ", ".", "3", "'", "e*", "E*", "_", "0", "1", "2", "5", "9",
            "\n", "-", "x"} |->
        CASE c = "a" -> 97 [] c = "e" -> 101 [] c = "h" -> 104
          [] c = "i" -> 105 [] c = "s" -> 115 [] c = "t" -> 116
          [] c = "x" -> 120
          [] c = "A" -> 65 [] c = "E" -> 69 [] c = "H" -> 72
          [] c = "I" -> 73 [] c = "S" -> 83 [] c = "T" -> 84
          [] c = " " -> 32 [] c = "." -> 46 [] c = "'" -> 39
          [] c = "-" -> 45 [] c = "\n" -> 10
          [] c = "0" -> 48 [] c = "1" -> 49 [] c = "2" -> 50
          [] c = "3" -> 51 [] c = "5" -> 53 [] c = "9" -> 57
          [] c = "e*" -> 233 [] c = "E*" -> 201 [] c = "_" -> 160]

\* The string written as a tuple of character names.
Str(names) == [i \in 1..Len(names) |-> Ord[names[i]]]

\* The UTF-8 encoding of one char (code points below 2^16).
Utf8Char(c) ==
    IF c < 128 THEN <<c>>
    ELSE IF c < 2048 THEN <<192 + (c \div 64), 128 + (c % 64)>>
    ELSE <<224 + (c \div 4096), 128 + ((c \div 64) % 64), 128 + (c % 64)>>

\* char::len_utf8
LenUtf8(c) == Len(Utf8Char(c))

RECURSIVE ByteLen(_)
\* str::len: the length of a string in bytes.
ByteLen(s) == IF s = <<>> THEN 0 ELSE LenUtf8(Head(s)) + ByteLen(Tail(s))

\* The chars of s from 1-based position a to position b.
Sub(s, a, b) == SubSeq(s, a, b)

\* str::is_char_boundary: byte offset at is 0, the length, or the first byte
\* of a char.
IsCharBoundary(s, at) ==
    \E k \in 0..Len(s) : ByteLen(Sub(s, 1, k)) = at

\* How many chars of s lie before the char boundary at byte offset at.
CharsBefore(s, at) ==
    CHOOSE k \in 0..Len(s) : ByteLen(Sub(s, 1, k)) = at

\* char::is_whitespace (the White_Space code points below 2^16)
IsWhitespace(c) ==
    \/ c \in 9..13
    \/ c \in {32, 133, 160, 5760, 8232, 8233, 8239, 8287, 12288}
    \/ c \in 8192..8202

\* char::is_uppercase on ASCII and Latin-1
IsUppercase(c) == c \in 65..90 \/ (c \in 192..222 /\ c # 215)

\* char::is_lowercase on ASCII and Latin-1
IsLowercase(c) ==
    c \in 97..122 \/ c \in {170, 181, 186} \/ (c \in 223..255 /\ c # 247)

\* char::is_alphabetic on ASCII and Latin-1
IsAlphabetic(c) == IsUppercase(c) \/ IsLowercase(c)

\* char::to_lowercase on ASCII and Latin-1, as the string it yields
CharToLowercase(c) == IF IsUppercase(c) THEN <<c + 32>> ELSE <<c>>

\* char::to_uppercase on ASCII and Latin-1, as the string it yields
\* (U+00DF upper-cases to "SS", U+00FF to U+0178, U+00B5 to U+039C).
CharToUppercase(c) ==
    IF c \in 97..122 \/ (c \in 224..254 /\ c # 247) THEN <<c - 32>>
    ELSE IF c = 223 THEN <<83, 83>>
    ELSE IF c = 255 THEN <<376>>
    ELSE IF c = 181 THEN <<924>>
    ELSE <<c>>

\* str::to_lowercase left out: the word as it was typed.
KeepsCase(s) == s

RECURSIVE ToLowercase(_)
\* str::to_lowercase
ToLowercase(s) ==
    IF s = <<>> THEN <<>> ELSE CharToLowercase(Head(s)) \o ToLowercase(Tail(s))

RECURSIVE BytesLess(_, _)
\* Lexicographic order of two byte sequences.
BytesLess(a, b) ==
    IF b = <<>> THEN FALSE
    ELSE IF a = <<>> THEN TRUE
    ELSE IF Head(a) # Head(b) THEN Head(a) < Head(b)
    ELSE BytesLess(Tail(a), Tail(b))

RECURSIVE Utf8(_)
\* The bytes of a string.
Utf8(s) == IF s = <<>> THEN <<>> ELSE Utf8Char(Head(s)) \o Utf8(Tail(s))

\* `a > b` on Strings: the byte-wise lexicographic order.
StrGreater(a, b) == BytesLess(Utf8(b), Utf8(a))

\* str::starts_with for str::contains: c is the first char of s.
StartsWith(s, c) == s # <<>> /\ s[1] = c

\* str::contains(char)
Contains(s, c) == \E i \in 1..Len(s) : s[i] = c


-----------------------------------------------------------------------------
(* src/spellchecker/algorithm.rs                                           *)

RECURSIVE SearchLoop(_, _, _, _)
\* The binary-search loop of search_for_word: the value of left (= right)
\* when it ends.  left and right are 0-based indices into d.
SearchLoop(word, d, left, right) ==
    IF left = right THEN left
    ELSE LET middle == (left + right + 1) \div 2
         IN  IF StrGreater(d[middle + 1], word)
             THEN SearchLoop(word, d, left, middle - 1)
             ELSE SearchLoop(word, d, middle, right)

RECURSIVE SearchStepsFrom(_, _, _, _)
\* The binary-search loop of search_for_word, observed: for every iteration
\* the values of left and right it starts with, the middle it computes and
\* the values of left and right it leaves.  An iteration whose
\* dict.get(middle).unwrap() panics leaves them as they were and is the last.
SearchStepsFrom(word, d, left, right) ==
    IF left = right THEN <<>>
    ELSE LET middle == (left + right + 1) \div 2
             step(l, r) == [left |-> left, right |-> right, middle |-> middle,
                            next_left |-> l, next_right |-> r]
         IN  IF middle < 0 \/ middle >= Len(d) THEN <<step(left, right)>>
             ELSE IF StrGreater(d[middle + 1], word)
             THEN <<step(left, middle - 1)>>
                    \o SearchStepsFrom(word, d, left, middle - 1)
             ELSE <<step(middle, right)>>
                    \o SearchStepsFrom(word, d, middle, right)

\* The loop started with right = dict.len() for dict.len() - 1.
SearchStepsFromLen(word, d) ==
    SearchStepsFrom(ToLowercase(word), d, 0, Len(d))

\* The iterations of the loop of search_for_word for word, which is neither
\* empty nor holds a space, in the non-empty d.
SearchSteps(word, d) ==
    SearchStepsFrom(ToLowercase(word), d, 0, Len(d) - 1)

\* search_for_word panics on an empty dictionary: dict.len() - 1 underflows
\* (or, without overflow checks, the first dict.get(..).unwrap() fails).
SearchPanics(word, d) ==
    /\ ~(Contains(word, 32) \/ word = <<>>)
    /\ d = <<>>

\* search_for_word: None, or Some(index) of the lower-cased word in d.
search_for_word(word, d) ==
    IF Contains(word, 32) \/ word = <<>> THEN None
    ELSE LET w    == ToLowercase(word)
             left == SearchLoop(w, d, 0, Len(d) - 1)
         IN  IF d[left + 1] = w THEN Some(left) ELSE None

\* is_word_correct
is_word_correct(word, d) ==
    IF Contains(word, 32) \/ word = <<>> THEN FALSE
    ELSE IsSome(search_for_word(word, d))

\* min of two integers
Min(a, b) == IF a < b THEN a ELSE b

RECURSIVE DpSubstitutesByTwo(_, _, _, _)
\* The table of edit_distance without the substitution case: a char is
\* replaced by a deletion and an insertion.
DpSubstitutesByTwo(source, target, i, j) ==
    IF i = 0 THEN j
    ELSE IF j = 0 THEN i
    ELSE IF source[i] = target[j] THEN DpSubstitutesByTwo(source, target, i - 1, j - 1)
    ELSE Min(DpSubstitutesByTwo(source, target, i - 1, j) + 1,
             DpSubstitutesByTwo(source, target, i, j - 1) + 1)

RECURSIVE DpFirstRowZero(_, _, _, _)
\* The table of edit_distance with the row of the empty source left at the
\* zeros it was created with (the first loop forgotten).
DpFirstRowZero(source, target, i, j) ==
    IF j = 0 THEN i
    ELSE IF i = 0 THEN 0
    ELSE IF source[i] = target[j] THEN DpFirstRowZero(source, target, i - 1, j - 1)
    ELSE Min(DpFirstRowZero(source, target, i - 1, j) + 1,
             Min(DpFirstRowZero(source, target, i, j - 1) + 1,
                 DpFirstRowZero(source, target, i - 1, j - 1) + 1))

RECURSIVE Dp(_, _, _, _)
\* The entry dp[i][j] of edit_distance's table for the chars of source and
\* target.
Dp(source, target, i, j) ==
    IF i = 0 THEN j
    ELSE IF j = 0 THEN i
    ELSE IF source[i] = target[j] THEN Dp(source, target, i - 1, j - 1)
    ELSE Min(Dp(source, target, i - 1, j) + 1,
             Min(Dp(source, target, i, j - 1) + 1,
                 Dp(source, target, i - 1, j - 1) + 1))

\* edit_distance
edit_distance(source, target) == Dp(source, target, Len(source), Len(target))

-----------------------------------------------------------------------------
(* src/spellchecker.rs: Spellchecker::check                                *)

\* Misspelling::from_range
Misspelling(word, start, end) ==
    [word |-> word, start |-> start, end |-> end, suggestions |-> <<>>]

\* Spellchecker::separates_word
separates_word(c) ==
    \/ c \in {46, 58, 44, 33, 63, 59, 38}
    \/ IsWhitespace(c)

\* check_word_and_add with `insert(0, ..)` for `push(..)`: a misspelling is
\* put in front of those found before it.
CheckWordAndAddFront(acc, word, start, end, d) ==
    IF acc.panicked THEN acc
    ELSE IF SearchPanics(word, d) THEN [acc EXCEPT !.panicked = TRUE]
    ELSE IF is_word_correct(word, d) THEN acc
    ELSE [acc EXCEPT !.ms = <<Misspelling(word, start, end)>> \o @]

\* check_word_and_add recording the word as it was looked up, lower-cased.
CheckWordAndAddLowercased(acc, word, start, end, d) ==
    IF acc.panicked THEN acc
    ELSE IF SearchPanics(word, d) THEN [acc EXCEPT !.panicked = TRUE]
    ELSE IF is_word_correct(word, d) THEN acc
    ELSE [acc EXCEPT !.ms = Append(@, Misspelling(ToLowercase(word), start, end))]

\* Spellchecker::check_word_and_add on the accumulator acc =
\* [ms: the misspellings so far, panicked: whether a lookup has panicked].
check_word_and_add(acc, word, start, end, d) ==
    IF acc.panicked THEN acc
    ELSE IF SearchPanics(word, d) THEN [acc EXCEPT !.panicked = TRUE]
    ELSE IF is_word_correct(word, d) THEN acc
    ELSE [acc EXCEPT !.ms = Append(@, Misspelling(word, start, end))]

RECURSIVE CheckLoopKeepsImproper(_, _, _, _, _, _, _)
\* The loop of Spellchecker::check without `is_proper_word = true` among the
\* resets at a separator: after a token with an invalid char no later token
\* is checked.
CheckLoopKeepsImproper(chars, i, word_buf, is_proper_word, start_pos, acc, d) ==
    IF i >= Len(chars) THEN acc
    ELSE LET c == chars[i + 1]
         IN  IF separates_word(c)
             THEN CheckLoopKeepsImproper(chars, i + 1, <<>>, is_proper_word, i + 1,
                            IF word_buf # <<>> /\ is_proper_word
                            THEN check_word_and_add(acc, word_buf, start_pos, i - 1, d)
                            ELSE acc,
                            d)
             ELSE CheckLoopKeepsImproper(chars, i + 1, Append(word_buf, c),
                            is_proper_word
                              /\ (IsAlphabetic(c) \/ c = 39 \/ c = 8217),
                            start_pos, acc, d)

RECURSIVE CheckLoop(_, _, _, _, _, _, _)
\* The loop of Spellchecker::check over chars (the buffer's chars followed
\* by a new line), from the char with 0-based index i on.
CheckLoop(chars, i, word_buf, is_proper_word, start_pos, acc, d) ==
    IF i >= Len(chars) THEN acc
    ELSE LET c == chars[i + 1]
         IN  IF separates_word(c)
             THEN CheckLoop(chars, i + 1, <<>>, TRUE, i + 1,
                            IF word_buf # <<>> /\ is_proper_word
                            THEN check_word_and_add(acc, word_buf, start_pos, i - 1, d)
                            ELSE acc,
                            d)
             ELSE CheckLoop(chars, i + 1, Append(word_buf, c),
                            is_proper_word
                              /\ (IsAlphabetic(c) \/ c = 39 \/ c = 8217),
                            start_pos, acc, d)

\* Spellchecker::check without the new line chained to the chars: the loop
\* ends with the last char of the buffer.
CheckWithoutTerminator(ms, buffer, d) ==
    CheckLoop(buffer, 0, <<>>, TRUE, 0, [ms |-> ms, panicked |-> FALSE], d)

\* Spellchecker::check: the list after checking buffer, starting from the
\* list ms, and whether a dictionary lookup panicked.
check(ms, buffer, d) ==
    CheckLoop(Append(buffer, 10), 0, <<>>, TRUE, 0,
              [ms |-> ms, panicked |-> FALSE], d)

-----------------------------------------------------------------------------
(* src/spellchecker.rs: suggestions                                        *)

\* The number of suggestions kept for a misspelling.
NUMBER_OF_SUGGESTIONS == 10

\* u8::is_ascii_whitespace, the separators of split_ascii_whitespace
IsAsciiWhitespace(c) == c \in {32, 9, 10, 12, 13}

RECURSIVE SplitLoop(_, _, _)
\* str::split_ascii_whitespace: the non-empty runs of chars of s that are not
\* ASCII whitespace; cur is the run being read, out the runs read.
SplitLoop(s, cur, out) ==
    IF s = <<>> THEN (IF cur = <<>> THEN out ELSE Append(out, cur))
    ELSE IF IsAsciiWhitespace(Head(s))
         THEN SplitLoop(Tail(s), <<>>, IF cur = <<>> THEN out ELSE Append(out, cur))
         ELSE SplitLoop(Tail(s), Append(cur, Head(s)), out)

\* str::split_ascii_whitespace
split_ascii_whitespace(s) == SplitLoop(s, <<>>, <<>>)

RECURSIVE DigitsValue(_, _)
\* The number written by the decimal digits ds, after the value acc.
DigitsValue(ds, acc) ==
    IF ds = <<>> THEN acc ELSE DigitsValue(Tail(ds), 10 * acc + (Head(ds) - 48))

\* str::parse::<i64> (for numbers the model's integers hold): Some(n) for an
\* optional sign followed by one or more decimal digits, None for an error.
ParseI64(s) ==
    LET signed == s # <<>> /\ Head(s) \in {43, 45}
        ds     == IF signed THEN Tail(s) ELSE s
    IN  IF ds = <<>> \/ \E i \in 1..Len(ds) : ds[i] \notin 48..57 THEN None
        ELSE IF signed /\ Head(s) = 45 THEN Some(0 - DigitsValue(ds, 0))
        ELSE Some(DigitsValue(ds, 0))

\* Whether reading the corpus line panics in Misspelling::suggest: no word,
\* no popularity, or a popularity that is no integer.
EntryPanics(line) ==
    LET entry == split_ascii_whitespace(line)
    IN  Len(entry) < 2 \/ ParseI64(entry[2]) = None

\* SuggestionPriority::new
SuggestionPriority(dist, popularity) ==
    [edit_distance |-> dist, popularity |-> popularity]

\* i64::MAX and i64::MIN, the extreme popularities, scaled to the integers of
\* the model checker (the ordering only compares them).
I64_MAX == 1073741823

I64_MIN == -1073741824

\* Ord for SuggestionPriority with the match arms of the edit distance not
\* swapped: the larger distance is the greater priority.
PriorityCmpFartherFirst(a, b) ==
    IF a.edit_distance = b.edit_distance
    THEN (IF a.popularity < b.popularity THEN "Less"
          ELSE IF a.popularity = b.popularity THEN "Equal" ELSE "Greater")
    ELSE IF a.edit_distance > b.edit_distance THEN "Greater"
    ELSE "Less"

\* PartialEq for SuggestionPriority
PriorityEq(a, b) ==
    a.edit_distance = b.edit_distance /\ a.popularity = b.popularity

\* Ord for SuggestionPriority: "Less", "Equal" or "Greater"
PriorityCmp(a, b) ==
    IF a.edit_distance = b.edit_distance
    THEN (IF a.popularity < b.popularity THEN "Less"
          ELSE IF a.popularity = b.popularity THEN "Equal" ELSE "Greater")
    ELSE IF a.edit_distance > b.edit_distance THEN "Less"
    ELSE "Greater"

\* DoublePriorityQueue::push: the queue (a set of [item, priority]) with item
\* at the given priority, replacing the priority it had.
QueuePush(q, item, priority) ==
    {e \in q : e.item # item} \cup {[item |-> item, priority |-> priority]}

\* pop_max for pop_min: the entries of maximal priority.
QueueBest(q) ==
    {e \in q : \A f \in q : PriorityCmp(e.priority, f.priority) # "Less"}

\* The entries pop_min may remove: those of minimal priority.
QueueMins(q) ==
    {e \in q : \A f \in q : PriorityCmp(e.priority, f.priority) # "Greater"}

\* The entries of maximal priority.
QueueMaxs(q) ==
    {e \in q : \A f \in q : PriorityCmp(e.priority, f.priority) # "Less"}

\* The loop `while len > NUMBER_OF_SUGGESTIONS` left out: nothing is popped.
KeepsAll(q) == {q}

RECURSIVE TrimQueue(_)
\* `while len > NUMBER_OF_SUGGESTIONS { pop_min() }`: the queues it can leave
\* (one, unless entries of equal priority compete for removal).
TrimQueue(q) ==
    IF Cardinality(q) <= NUMBER_OF_SUGGESTIONS THEN {q}
    ELSE UNION {TrimQueue(q \ {e}) : e \in QueueMins(q)}

RECURSIVE RankLoop(_, _, _)
\* The loop of Misspelling::suggest over the corpus lines: the queues it can
\* end with, starting from queue q.
RankLoop(word, lines, q) ==
    IF lines = <<>> THEN {q}
    ELSE LET entry == split_ascii_whitespace(Head(lines))
             w     == entry[1]
             dist  == edit_distance(ToLowercase(word), w)
             pop   == Unwrap(ParseI64(entry[2]))
         IN  UNION {RankLoop(word, Tail(lines), t) :
                      t \in TrimQueue(QueuePush(q, w, SuggestionPriority(dist, pop)))}

RECURSIVE RankStepsBatch(_, _, _)
\* The loop of Misspelling::suggest with the trimming moved behind the loop:
\* every entry is pushed and nothing is popped while the corpus is read.
RankStepsBatch(word, lines, q) ==
    IF lines = <<>> THEN {<<>>}
    ELSE LET entry  == split_ascii_whitespace(Head(lines))
             w      == entry[1]
             dist   == edit_distance(ToLowercase(word), w)
             pop    == Unwrap(ParseI64(entry[2]))
             pushed == QueuePush(q, w, SuggestionPriority(dist, pop))
         IN  {<<[pushed |-> Cardinality(pushed), kept |-> Cardinality(pushed)]>>
                \o rest : rest \in RankStepsBatch(word, Tail(lines), pushed)}

RECURSIVE RankSteps(_, _, _)
\* The loop of Misspelling::suggest over the corpus lines, observed: for
\* every line the length of top_suggestions after the push and after the
\* `while` that pops, starting from queue q.
RankSteps(word, lines, q) ==
    IF lines = <<>> THEN {<<>>}
    ELSE LET entry  == split_ascii_whitespace(Head(lines))
             w      == entry[1]
             dist   == edit_distance(ToLowercase(word), w)
             pop    == Unwrap(ParseI64(entry[2]))
             pushed == QueuePush(q, w, SuggestionPriority(dist, pop))
         IN  UNION {{<<[pushed |-> Cardinality(pushed), kept |-> Cardinality(t)]>>
                       \o rest : rest \in RankSteps(word, Tail(lines), t)} :
                    t \in TrimQueue(pushed)}

RECURSIVE SortedRev(_)
\* into_sorted_iter().rev(): the items of q from the best priority to the
\* worst (entries of equal priority in either order).
SortedRev(q) ==
    IF q = {} THEN {<<>>}
    ELSE UNION {{<<e.item>> \o t : t \in SortedRev(q \ {e})} : e \in QueueMaxs(q)}

\* Whether Misspelling::suggest panics on the corpus.
SuggestPanics(lines) == \E i \in 1..Len(lines) : EntryPanics(lines[i])

\* Misspelling::suggest: the suggestion lists it can compute for word.
Suggestions(word, lines) ==
    UNION {SortedRev(q) : q \in RankLoop(word, lines, {})}

\* get_next_suggestion_index staying at the last index, where the code wraps
\* to index 0.
NextSuggestionStopsAtEnd(m, current_selection) ==
    IF m.suggestions = <<>> THEN None
    ELSE IF current_selection = None THEN Some(0)
    ELSE LET idx  == Unwrap(current_selection)
             next == IF idx = USIZE_MAX THEN USIZE_MAX ELSE idx + 1
         IN  IF next < Len(m.suggestions) THEN Some(next)
             ELSE Some(Len(m.suggestions) - 1)

\* Misspelling::get_next_suggestion_index
get_next_suggestion_index(m, current_selection) ==
    IF m.suggestions = <<>> THEN None
    ELSE IF current_selection = None THEN Some(0)
    ELSE LET idx  == Unwrap(current_selection)
             next == IF idx = USIZE_MAX THEN USIZE_MAX ELSE idx + 1
         IN  IF next < Len(m.suggestions) THEN Some(next) ELSE Some(0)

\* get_previous_suggestion_index selecting the first suggestion when none is
\* selected, as get_next_suggestion_index does, where the code selects the
\* last.
PreviousSuggestionFromNoneFirst(m, current_selection) ==
    IF m.suggestions = <<>> THEN None
    ELSE IF current_selection = None THEN Some(0)
    ELSE LET idx == Unwrap(current_selection)
         IN  IF idx >= 1 THEN Some(idx - 1) ELSE Some(Len(m.suggestions) - 1)

\* Misspelling::get_previous_suggestion_index
get_previous_suggestion_index(m, current_selection) ==
    IF m.suggestions = <<>> THEN None
    ELSE IF current_selection = None THEN Some(Len(m.suggestions) - 1)
    ELSE LET idx == Unwrap(current_selection)
         IN  IF idx >= 1 THEN Some(idx - 1) ELSE Some(Len(m.suggestions) - 1)

\* i32 from usize (`as i32`): the same bits read as a signed number.
AsI32(u) == IF 2 * u > USIZE_MAX THEN u - (USIZE_MAX + 1) ELSE u

\* offset_misspelling_positions with `skip(from_idx + 1)`: the entry at
\* from_idx is left where it was.
OffsetSkipsOneMore(ms, offset, from_idx) ==
    [k \in 1..Len(ms) |->
        IF k - 1 > from_idx
        THEN [ms[k] EXCEPT !.start = AsUsize(AsI32(@) + offset),
                           !.end   = AsUsize(AsI32(@) + offset)]
        ELSE ms[k]]

\* offset_misspelling_positions with `take(from_idx)` for `skip(from_idx)`:
\* the entries before from_idx are moved instead of those from it on.
OffsetTakesFirst(ms, offset, from_idx) ==
    [k \in 1..Len(ms) |->
        IF k - 1 < from_idx
        THEN [ms[k] EXCEPT !.start = AsUsize(AsI32(@) + offset),
                           !.end   = AsUsize(AsI32(@) + offset)]
        ELSE ms[k]]

\* offset_misspelling_positions without `skip(from_idx)`: every entry is
\* moved, those before from_idx included.
OffsetMovesAll(ms, offset, from_idx) ==
    [k \in 1..Len(ms) |->
        [ms[k] EXCEPT !.start = AsUsize(AsI32(@) + offset),
                      !.end   = AsUsize(AsI32(@) + offset)]]

\* Spellchecker::offset_misspelling_positions on the list ms
offset_misspelling_positions(ms, offset, from_idx) ==
    [k \in 1..Len(ms) |->
        IF k - 1 >= from_idx
        THEN [ms[k] EXCEPT !.start = AsUsize(AsI32(@) + offset),
                           !.end   = AsUsize(AsI32(@) + offset)]
        ELSE ms[k]]

-----------------------------------------------------------------------------
(* src/spellchecker.rs: Spellchecker::load_dict, Spellchecker::new         *)

RECURSIVE TrimStart(_)
\* str::trim_start
TrimStart(s) ==
    IF s # <<>> /\ IsWhitespace(Head(s)) THEN TrimStart(Tail(s)) ELSE s

RECURSIVE TrimEnd(_)
\* str::trim_end
TrimEnd(s) ==
    IF s # <<>> /\ IsWhitespace(s[Len(s)])
    THEN TrimEnd(Sub(s, 1, Len(s) - 1))
    ELSE s

\* str::trim
Trim(s) == TrimEnd(TrimStart(s))

\* Spellchecker::load_dict for a readable file of the given lines: the lines,
\* trimmed, in the order of the file.
load_dict(lines) == [k \in 1..Len(lines) |-> Trim(lines[k])]

\* Spellchecker::new for readable files dict.txt and suggestion_dict.txt.
Spellchecker_new(dict_lines, corpus_lines) ==
    [dict            |-> load_dict(dict_lines),
     suggestion_dict |-> load_dict(corpus_lines),
     misspellings    |-> <<>>]

-----------------------------------------------------------------------------
(* src/app_state.rs                                                        *)
(* The operations are written on a record st of the fields they change:    *)
(* file_buffer, selected_misspelling, selected_suggestion,                 *)
(* misspellings_list_state, misspellings (of the spellchecker) and failed. *)

RECURSIVE MatchCaseLowersRest(_, _)
\* match_case lower-casing the chars of target beyond source, where the code
\* copies them unchanged.
MatchCaseLowersRest(source, target) ==
    IF target = <<>> THEN <<>>
    ELSE IF source = <<>> THEN ToLowercase(target)
    ELSE (IF IsUppercase(Head(source))
          THEN CharToUppercase(Head(target))
          ELSE CharToLowercase(Head(target)))
         \o MatchCaseLowersRest(Tail(source), Tail(target))

RECURSIVE match_case(_, _)
\* match_case: target with the case of its chars matched to source's chars.
match_case(source, target) ==
    IF target = <<>> THEN <<>>
    ELSE IF source = <<>> THEN target
    ELSE (IF IsUppercase(Head(source))
          THEN CharToUppercase(Head(target))
          ELSE CharToLowercase(Head(target)))
         \o match_case(Tail(source), Tail(target))

\* The state left by an operation that panicked part-way.
Panicked(st) == [st EXCEPT !.failed = TRUE]

\* AppState::check_spelling
check_spelling(st, d) ==
    LET r == check(st.misspellings, st.file_buffer, d)
    IN  IF r.panicked THEN Panicked([st EXCEPT !.misspellings = r.ms])
        ELSE [st EXCEPT !.misspellings = r.ms]

\* AppState::set_misspellings_list_state
set_misspellings_list_state(st) ==
    [st EXCEPT !.misspellings_list_state = st.selected_misspelling]

\* AppState::select_first_misspelling
select_first_misspelling(st) ==
    set_misspellings_list_state([st EXCEPT !.selected_misspelling = Some(0)])

\* selected_misspelling_inbound clamping an index beyond the end to the last
\* index where the code wraps it to 0.
InboundClamps(st, misspellings_count) ==
    IF st.selected_misspelling = None THEN st
    ELSE IF misspellings_count = 0
         THEN [st EXCEPT !.selected_misspelling = None]
    ELSE IF st.selected_misspelling = Some(USIZE_MAX)
         THEN [st EXCEPT !.selected_misspelling = Some(misspellings_count - 1)]
    ELSE IF Unwrap(st.selected_misspelling) > misspellings_count - 1
         THEN [st EXCEPT !.selected_misspelling = Some(misspellings_count - 1)]
    ELSE st

\* selected_misspelling_inbound without the usize::MAX case: the sentinel left
\* by a decrement below zero falls to the "beyond the end" case and becomes 0.
InboundWithoutSentinel(st, misspellings_count) ==
    IF st.selected_misspelling = None THEN st
    ELSE IF misspellings_count = 0
         THEN [st EXCEPT !.selected_misspelling = None]
    ELSE IF Unwrap(st.selected_misspelling) > misspellings_count - 1
         THEN [st EXCEPT !.selected_misspelling = Some(0)]
    ELSE st

\* AppState::selected_misspelling_inbound
selected_misspelling_inbound(st, misspellings_count) ==
    IF st.selected_misspelling = None THEN st
    ELSE IF misspellings_count = 0
         THEN [st EXCEPT !.selected_misspelling = None]
    ELSE IF st.selected_misspelling = Some(USIZE_MAX)
         THEN [st EXCEPT !.selected_misspelling = Some(misspellings_count - 1)]
    ELSE IF Unwrap(st.selected_misspelling) > misspellings_count - 1
         THEN [st EXCEPT !.selected_misspelling = Some(0)]
    ELSE st

\* select_next_misspelling stopping at the last index where the code wraps to
\* index 0.
SelectNextStopsAtEnd(st) ==
    LET count == Len(st.misspellings)
    IN  IF count = 0 THEN [st EXCEPT !.selected_misspelling = None]
        ELSE set_misspellings_list_state(
               IF st.selected_misspelling = None
               THEN select_first_misspelling(st)
               ELSE [st EXCEPT !.selected_misspelling =
                       Some(Min(Unwrap(@) + 1, count - 1))])

\* AppState::select_next_misspelling
select_next_misspelling(st) ==
    LET count == Len(st.misspellings)
    IN  IF count = 0 THEN [st EXCEPT !.selected_misspelling = None]
        ELSE set_misspellings_list_state(
               selected_misspelling_inbound(
                 IF st.selected_misspelling = None
                 THEN select_first_misspelling(st)
                 ELSE [st EXCEPT !.selected_misspelling = Some(Unwrap(@) + 1)],
                 count))

\* select_previous_misspelling without the call of
\* selected_misspelling_inbound: a decrement below zero leaves usize::MAX.
SelectPreviousWithoutInbound(st) ==
    LET count == Len(st.misspellings)
    IN  IF count = 0 THEN [st EXCEPT !.selected_misspelling = None]
        ELSE set_misspellings_list_state(
               IF st.selected_misspelling = None
               THEN select_first_misspelling(st)
               ELSE [st EXCEPT !.selected_misspelling =
                       IF Unwrap(@) >= 1 THEN Some(Unwrap(@) - 1)
                       ELSE Some(USIZE_MAX)])

\* AppState::select_previous_misspelling
select_previous_misspelling(st) ==
    LET count == Len(st.misspellings)
    IN  IF count = 0 THEN [st EXCEPT !.selected_misspelling = None]
        ELSE set_misspellings_list_state(
               selected_misspelling_inbound(
                 IF st.selected_misspelling = None
                 THEN select_first_misspelling(st)
                 ELSE [st EXCEPT !.selected_misspelling =
                         IF Unwrap(@) >= 1 THEN Some(Unwrap(@) - 1)
                         ELSE Some(USIZE_MAX)],
                 count))

RECURSIVE SelectNextTimes(_, _)
\* select_next_misspelling called n times in a row.
SelectNextTimes(st, n) ==
    IF n = 0 THEN st ELSE SelectNextTimes(select_next_misspelling(st), n - 1)

RECURSIVE SelectPreviousTimes(_, _)
\* select_previous_misspelling called n times in a row.
SelectPreviousTimes(st, n) ==
    IF n = 0 THEN st ELSE SelectPreviousTimes(select_previous_misspelling(st), n - 1)

\* AppState::get_selected_misspelling panics when the selected index is not
\* in the list.
SelectedMissing(st) ==
    /\ st.selected_misspelling # None
    /\ Unwrap(st.selected_misspelling) >= Len(st.misspellings)

\* AppState::select_next_suggestion
select_next_suggestion(st) ==
    IF st.selected_misspelling = None THEN st
    ELSE IF SelectedMissing(st) THEN Panicked(st)
    ELSE [st EXCEPT !.selected_suggestion =
            get_next_suggestion_index(
              st.misspellings[Unwrap(st.selected_misspelling) + 1], @)]

\* AppState::select_previous_suggestion
select_previous_suggestion(st) ==
    IF st.selected_misspelling = None THEN st
    ELSE IF SelectedMissing(st) THEN Panicked(st)
    ELSE [st EXCEPT !.selected_suggestion =
            get_previous_suggestion_index(
              st.misspellings[Unwrap(st.selected_misspelling) + 1], @)]

\* Spellchecker::suggest computing the suggestions of every entry that has
\* none, not only of the entry at misspelling_index.
SuggestForAll(ms, misspelling_index, lines) ==
    IF ms[misspelling_index + 1].suggestions # <<>> THEN {ms}
    ELSE {[k \in 1..Len(ms) |->
             IF ms[k].suggestions # <<>> THEN ms[k]
             ELSE [ms[k] EXCEPT !.suggestions =
                     CHOOSE sg \in Suggestions(ms[k].word, lines) : TRUE]]}

\* Spellchecker::suggest: the lists it can leave.
Spellchecker_suggest(ms, misspelling_index, lines) ==
    IF ms[misspelling_index + 1].suggestions # <<>> THEN {ms}
    ELSE {[ms EXCEPT ![misspelling_index + 1].suggestions = sg] :
            sg \in Suggestions(ms[misspelling_index + 1].word, lines)}

\* AppState::suggest_selected: the states it can leave.
suggest_selected(st, lines) ==
    IF st.selected_misspelling = None THEN {st}
    ELSE IF SelectedMissing(st) THEN {Panicked(st)}
    ELSE IF st.misspellings[Unwrap(st.selected_misspelling) + 1].suggestions = <<>>
            /\ SuggestPanics(lines)
         THEN {Panicked(st)}
    ELSE {[st EXCEPT !.misspellings = ms] :
            ms \in Spellchecker_suggest(st.misspellings,
                                        Unwrap(st.selected_misspelling), lines)}

\* Vec::pop for Vec::remove: the list without its last entry.
RemoveLast(ms, idx) == [k \in 1..(Len(ms) - 1) |-> ms[k]]

\* Vec::remove: the list without its entry at the 0-based index idx.
Remove(ms, idx) ==
    [k \in 1..(Len(ms) - 1) |-> IF k <= idx THEN ms[k] ELSE ms[k + 1]]

\* The values `end - start + 1` can take as a usize: the difference, or, when
\* end < start, a panic (<<>>, with overflow checks) or the wrapped value.
MisspellingLen(m) ==
    IF m.end >= m.start THEN {Some(m.end - m.start + 1)}
    ELSE {None, Some(AsUsize(m.end - m.start + 1))}

\* The splice of accept_suggestion: the buffer with the bytes from offset
\* misspelling_start on replaced by suggestion followed by what came
\* misspelling_len bytes later.  split_off and the slice panic on an offset
\* beyond the end or inside a char; `at` is then the step that panicked.
Splice(buffer, misspelling_start, misspelling_len, suggestion) ==
    IF ~IsCharBoundary(buffer, misspelling_start)
    THEN [at |-> "split_off", buffer |-> buffer]
    ELSE LET k            == CharsBefore(buffer, misspelling_start)
             head         == Sub(buffer, 1, k)
             buffer_after == Sub(buffer, k + 1, Len(buffer))
         IN  IF ~IsCharBoundary(buffer_after, misspelling_len)
             THEN [at |-> "slice", buffer |-> head \o suggestion]
             ELSE [at |-> "done",
                   buffer |-> head \o suggestion
                              \o Sub(buffer_after,
                                     CharsBefore(buffer_after, misspelling_len) + 1,
                                     Len(buffer_after))]

\* accept_suggestion without the call of selected_misspelling_inbound: the
\* selection keeps the index of the accepted entry.
AcceptWithoutInbound(st, selected, idx, len) ==
    IF len = None THEN Panicked(st)
    ELSE LET misspelling_len == Unwrap(len)
             suggestion == match_case(selected.word,
                             selected.suggestions[Unwrap(st.selected_suggestion) + 1])
             len_delta  == AsI32(ByteLen(suggestion)) - AsI32(misspelling_len)
             sp         == Splice(st.file_buffer, selected.start,
                                  misspelling_len, suggestion)
         IN  IF sp.at # "done"
             THEN Panicked([st EXCEPT !.file_buffer = sp.buffer])
             ELSE set_misspellings_list_state(
                    [st EXCEPT !.file_buffer = sp.buffer,
                               !.misspellings =
                                  offset_misspelling_positions(@, len_delta, idx)])

\* The part of accept_suggestion after the misspelling was taken from the
\* list: st is the state without it, idx its former index, len one value of
\* its length.
AcceptRemoved(st, selected, idx, len) ==
    IF len = None THEN Panicked(st)
    ELSE LET misspelling_len == Unwrap(len)
             suggestion == match_case(selected.word,
                             selected.suggestions[Unwrap(st.selected_suggestion) + 1])
             len_delta  == AsI32(ByteLen(suggestion)) - AsI32(misspelling_len)
             sp         == Splice(st.file_buffer, selected.start,
                                  misspelling_len, suggestion)
         IN  IF sp.at # "done"
             THEN Panicked([st EXCEPT !.file_buffer = sp.buffer])
             ELSE set_misspellings_list_state(
                    selected_misspelling_inbound(
                      [st EXCEPT !.file_buffer = sp.buffer,
                                 !.misspellings =
                                    offset_misspelling_positions(@, len_delta, idx)],
                      Len(st.misspellings)))

\* accept_suggestion returning early only when neither a misspelling nor a
\* suggestion is selected (`&&` for `||`): with one of them missing it goes
\* on to the lookups, which panic.
AcceptUnlessBothMissing(st) ==
    IF st.selected_misspelling = None /\ st.selected_suggestion = None THEN {st}
    ELSE IF st.selected_misspelling = None \/ SelectedMissing(st) THEN {Panicked(st)}
    ELSE LET idx      == Unwrap(st.selected_misspelling)
             selected == st.misspellings[idx + 1]
             removed  == [st EXCEPT !.misspellings = Remove(@, idx)]
         IN  IF st.selected_suggestion = None
                \/ Unwrap(st.selected_suggestion) >= Len(selected.suggestions)
             THEN {Panicked(removed)}
             ELSE {AcceptRemoved(removed, selected, idx, len) :
                     len \in MisspellingLen(selected)}

\* accept_suggestion looking the suggestion up with `if let Some(..)` and
\* returning when there is none, where the code unwraps.
AcceptSkipsMissingSuggestion(st) ==
    IF st.selected_misspelling = None \/ st.selected_suggestion = None THEN {st}
    ELSE IF SelectedMissing(st) THEN {Panicked(st)}
    ELSE LET idx      == Unwrap(st.selected_misspelling)
             selected == st.misspellings[idx + 1]
             removed  == [st EXCEPT !.misspellings = Remove(@, idx)]
         IN  IF Unwrap(st.selected_suggestion) >= Len(selected.suggestions)
             THEN {removed}
             ELSE {AcceptRemoved(removed, selected, idx, len) :
                     len \in MisspellingLen(selected)}

\* AppState::accept_suggestion: the states it can leave.
accept_suggestion(st) ==
    IF st.selected_misspelling = None \/ st.selected_suggestion = None THEN {st}
    ELSE IF SelectedMissing(st) THEN {Panicked(st)}
    ELSE LET idx      == Unwrap(st.selected_misspelling)
             selected == st.misspellings[idx + 1]
             removed  == [st EXCEPT !.misspellings = Remove(@, idx)]
         IN  IF Unwrap(st.selected_suggestion) >= Len(selected.suggestions)
             THEN {Panicked(removed)}
             ELSE {AcceptRemoved(removed, selected, idx, len) :
                     len \in MisspellingLen(selected)}

-----------------------------------------------------------------------------
(* The data of the model                                                   *)

\* The correctness dictionary (dict.txt): lower-case words, sorted.
MainDict ==
    << Str(<<"i", "s">>), Str(<<"t", "h", "e">>), Str(<<"t", "h", "i", "s">>),
       Str(<<"e*">>) >>

\* The suggestion corpus (suggestion_dict.txt): one "word popularity" a line.
MainCorpus ==
    << Str(<<"t", "h", "i", "s", " ", "5", "0">>),
       Str(<<"i", "s", " ", "9", "0">>),
       Str(<<"t", "h", "e*", " ", "9">>) >>

\* The words the initial buffers of the editing model are made of: a
\* misspelled word, a correct word and a correct word of one two-byte char.
Words == { Str(<<"T", "h", "s">>), Str(<<"i", "s">>), Str(<<"e*">>) }

RECURSIVE Join(_)
\* The words ws, separated by single spaces.
Join(ws) ==
    IF ws = <<>> THEN <<>>
    ELSE IF Len(ws) = 1 THEN ws[1]
    ELSE ws[1] \o <<32>> \o Join(Tail(ws))

\* The initial buffers of the editing model.
Buffers ==
    {Join(ws) : ws \in UNION {[1..n -> Words] : n \in 0..MaxWords}}

\* The chars the buffers of the tokenizer model are made of.
CheckAlphabet == {Ord[c] : c \in {"i", "s", "I", " ", ".", "3", "'", "e*"}}

\* The buffers of the tokenizer model: every string of at most MaxLen chars.
CheckBuffers == UNION {[1..n -> CheckAlphabet] : n \in 0..MaxLen}

-----------------------------------------------------------------------------
(* The state machine                                                       *)

\* The fields of AppState (and of its spellchecker) an operation changes.
Cur ==
    [file_buffer             |-> file_buffer,
     selected_misspelling    |-> selected_misspelling,
     selected_suggestion     |-> selected_suggestion,
     misspellings_list_state |-> misspellings_list_state,
     misspellings            |-> misspellings,
     failed                  |-> failed]

\* AppState::new (and Spellchecker::new) for the buffer b.
New(b) ==
    [file_buffer             |-> b,
     selected_misspelling    |-> None,
     selected_suggestion     |-> None,
     misspellings_list_state |-> None,
     misspellings            |-> <<>>,
     failed                  |-> FALSE]

\* The operation named name runs and leaves the state st.
Do(name, st) ==
    /\ ~failed
    /\ file_buffer' = st.file_buffer
    /\ selected_misspelling' = st.selected_misspelling
    /\ selected_suggestion' = st.selected_suggestion
    /\ misspellings_list_state' = st.misspellings_list_state
    /\ misspellings' = st.misspellings
    /\ failed' = st.failed
    /\ op' = name
    /\ prev' = Cur
    /\ UNCHANGED <<dict, suggestion_dict, args, ret>>

\* The state after AppState::new for a buffer of bs, the spellchecker built by
\* Spellchecker::new from a dict.txt of dict_files and a suggestion_dict.txt
\* of corpus_files.
InitFrom(bs, dict_files, corpus_files) ==
    /\ file_buffer \in bs
    /\ selected_misspelling = None
    /\ selected_suggestion = None
    /\ misspellings_list_state = None
    /\ \E df \in dict_files, cf \in corpus_files :
         LET sc == Spellchecker_new(df, cf)
         IN  /\ dict = sc.dict
             /\ suggestion_dict = sc.suggestion_dict
             /\ misspellings = sc.misspellings
    /\ failed = FALSE
    /\ checks = 0
    /\ op = "new"
    /\ prev = New(file_buffer)
    /\ args = <<>>
    /\ ret = <<>>

\* ... with the dict.txt and suggestion_dict.txt of the model.
InitWith(bs) == InitFrom(bs, {MainDict}, {MainCorpus})

Init == InitWith(Buffers)

\* check_spelling on the freshly constructed state: a session of the program
\* checks its buffer once, when it starts.
CheckSpelling ==
    /\ checks = 0
    /\ Do("check_spelling", check_spelling(Cur, dict))
    /\ checks' = Min(checks + 1, 2)

SelectNextMisspelling ==
    /\ Do("select_next_misspelling", select_next_misspelling(Cur))
    /\ UNCHANGED checks

SelectPreviousMisspelling ==
    /\ Do("select_previous_misspelling", select_previous_misspelling(Cur))
    /\ UNCHANGED checks

SelectNextSuggestion ==
    /\ Do("select_next_suggestion", select_next_suggestion(Cur))
    /\ UNCHANGED checks

SelectPreviousSuggestion ==
    /\ Do("select_previous_suggestion", select_previous_suggestion(Cur))
    /\ UNCHANGED checks

SuggestSelected ==
    /\ \E st \in suggest_selected(Cur, suggestion_dict) : Do("suggest_selected", st)
    /\ UNCHANGED checks

AcceptSuggestion ==
    /\ \E st \in accept_suggestion(Cur) : Do("accept_suggestion", st)
    /\ UNCHANGED checks

Next ==
    \/ CheckSpelling
    \/ SelectNextMisspelling
    \/ SelectPreviousMisspelling
    \/ SelectNextSuggestion
    \/ SelectPreviousSuggestion
    \/ SuggestSelected
    \/ AcceptSuggestion

Spec == Init /\ [][Next]_vars

\* The tokenizer model: check on every buffer of at most MaxLen chars.
InitCheck == InitWith(CheckBuffers)

\* check_spelling at any time, while the list stays within MaxMisspellings.
CheckAgain ==
    /\ Len(check_spelling(Cur, dict).misspellings) <= MaxMisspellings
    /\ Do("check_spelling", check_spelling(Cur, dict))
    /\ checks' = Min(checks + 1, 2)

NextCheck == CheckAgain

SpecCheck == InitCheck /\ [][NextCheck]_vars

-----------------------------------------------------------------------------
(* The loading model: Spellchecker::new on any dict.txt, then lookups      *)

\* The lines dict.txt is made of: words, a word with a space before it, an
\* empty line and a line of two words.
DictLines ==
    { Str(<<"i">>), Str(<<"i", "s">>), Str(<<" ", "s">>), <<>>,
      Str(<<"i", " ", "s">>) }

\* The dict.txt files: at most MaxDict lines, in any order.
DictFiles == UNION {[1..n -> DictLines] : n \in 0..MaxDict}

\* The words looked up: the lines of dict.txt and every string of at most
\* MaxWordLen of these chars.
LookupWords ==
    DictLines \cup
    UNION {[1..n -> {Ord[c] : c \in {"i", "s", "I", "S", " "}}] : n \in 0..MaxWordLen}

\* A function called on its own: name with the arguments a returned r.
Call(name, a, r) ==
    /\ ~failed
    /\ op' = name
    /\ args' = a
    /\ ret' = r
    /\ prev' = Cur
    /\ UNCHANGED <<file_buffer, selected_misspelling, selected_suggestion,
                   misspellings_list_state, dict, suggestion_dict,
                   misspellings, failed, checks>>

\* ... or panicked.
CallPanics(name, a) ==
    /\ ~failed
    /\ op' = name
    /\ args' = a
    /\ ret' = <<>>
    /\ prev' = Cur
    /\ failed' = TRUE
    /\ UNCHANGED <<file_buffer, selected_misspelling, selected_suggestion,
                   misspellings_list_state, dict, suggestion_dict,
                   misspellings, checks>>

InitLoad == InitFrom({<<>>}, DictFiles, {MainCorpus})

\* The lookups change nothing of the checker: one call on a constructed
\* checker shows all a call can do.
SearchForWord ==
    \E w \in LookupWords :
        /\ op = "new"
        /\ IF SearchPanics(w, dict)
           THEN CallPanics("search_for_word", [word |-> w])
           ELSE Call("search_for_word", [word |-> w], search_for_word(w, dict))

IsWordCorrect ==
    \E w \in LookupWords :
        /\ op = "new"
        /\ IF SearchPanics(w, dict)
           THEN CallPanics("is_word_correct", [word |-> w])
           ELSE Call("is_word_correct", [word |-> w], is_word_correct(w, dict))

NextLoad ==
    \/ SearchForWord
    \/ IsWordCorrect

SpecLoad == InitLoad /\ [][NextLoad]_vars

-----------------------------------------------------------------------------
(* The search model: the loop of search_for_word on dictionaries of up to  *)
(* MaxSearch lines, sorted or not                                          *)

MaxSearch == 5

\* The words the dictionaries of the search model are made of.
SearchWords == { Str(<<"i">>), Str(<<"i", "s">>), Str(<<"s">>) }

\* The dict.txt files of the search model.
SearchFiles == UNION {[1..n -> SearchWords] : n \in 0..MaxSearch}

\* The words searched: those of the dictionaries, one before and one after
\* them all, one in upper case, and two that are not searched for.
SearchLookups ==
    SearchWords \cup { Str(<<"a">>), Str(<<"t">>), Str(<<"I", "S">>), <<>>,
                       Str(<<"i", " ", "s">>) }

InitSearch == InitFrom({<<>>}, SearchFiles, {MainCorpus})

\* search_for_word, its loop observed.
SearchForWordLoop ==
    \E w \in SearchLookups :
        /\ op = "new"
        /\ IF SearchPanics(w, dict)
           THEN CallPanics("search_for_word", [word |-> w])
           ELSE Call("search_for_word", [word |-> w],
                     [found |-> search_for_word(w, dict),
                      steps |-> IF Contains(w, 32) \/ w = <<>> THEN <<>>
                                ELSE SearchSteps(w, dict)])

NextSearch == SearchForWordLoop

SpecSearch == InitSearch /\ [][NextSearch]_vars

-----------------------------------------------------------------------------
(* src/render.rs: starts_misspelling, on every sorted list of up to        *)
(* MaxList misspellings that start at 0..MaxStart                          *)

RECURSIVE StartsLoopSkipsEqual(_, _, _, _)
\* The loop of starts_misspelling comparing with `>=` for `>`: an entry that
\* starts at idx is left out of the window.
StartsLoopSkipsEqual(idx, ms, left, right) ==
    IF left = right THEN left
    ELSE LET mid == (left + right + 1) \div 2
         IN  IF ms[mid + 1].start >= idx
             THEN StartsLoopSkipsEqual(idx, ms, left, mid - 1)
             ELSE StartsLoopSkipsEqual(idx, ms, mid, right)

RECURSIVE StartsLoop(_, _, _, _)
\* The binary-search loop of starts_misspelling: the value of left (= right)
\* when it ends.  left and right are 0-based indices into ms.
StartsLoop(idx, ms, left, right) ==
    IF left = right THEN left
    ELSE LET mid == (left + right + 1) \div 2
         IN  IF ms[mid + 1].start > idx
             THEN StartsLoop(idx, ms, left, mid - 1)
             ELSE StartsLoop(idx, ms, mid, right)

\* starts_misspelling: Some(index) of the misspelling that starts at idx,
\* or None.
starts_misspelling(idx, ms) ==
    IF ms = <<>> THEN None
    ELSE LET left == StartsLoop(idx, ms, 0, Len(ms) - 1)
         IN  IF ms[left + 1].start = idx THEN Some(left) ELSE None

MaxList == 3

MaxStart == 4

\* The misspellings of the lists: a word of one or of three chars at every
\* start up to MaxStart.
ListEntries ==
    {Misspelling(<<120>>, st, st) : st \in 0..MaxStart}
    \cup {Misspelling(<<120, 120, 120>>, st, st + 2) : st \in 0..MaxStart}

\* The lists handed to starts_misspelling: sorted ascending by start.
SortedLists ==
    {ms \in UNION {[1..n -> ListEntries] : n \in 0..MaxList} :
        \A k \in 1..(Len(ms) - 1) : ms[k].start <= ms[k + 1].start}

\* The positions asked about: those of the entries, some beyond them, and
\* usize::MAX.
Positions == 0..(MaxStart + 3) \cup {USIZE_MAX}

InitRender == InitFrom({<<>>}, {MainDict}, {MainCorpus})

StartsMisspelling ==
    \E ms \in SortedLists, idx \in Positions :
        /\ op = "new"
        /\ Call("starts_misspelling", [idx |-> idx, misspellings |-> ms],
                starts_misspelling(idx, ms))

NextRender == StartsMisspelling

SpecRender == InitRender /\ [][NextRender]_vars

-----------------------------------------------------------------------------
(* The corpus model: Spellchecker::new on any suggestion_dict.txt, then a  *)
(* session on a buffer of one misspelled word                              *)

\* The lines suggestion_dict.txt is made of: well-formed ones (one with
\* spaces around it), one without a popularity, one whose popularity is no
\* integer, and an empty one.
CorpusLines ==
    { Str(<<"t", "h", "i", "s", " ", "5", "0">>),
      Str(<<" ", "i", "s", " ", "9", "0", " ">>),
      Str(<<"i", "s">>),
      Str(<<"i", "s", " ", "x">>),
      <<>> }

\* The suggestion_dict.txt files: at most MaxCorpus lines.
CorpusFiles == UNION {[1..n -> CorpusLines] : n \in 0..MaxCorpus}

InitCorpus == InitFrom({Str(<<"T", "h", "s">>)}, {MainDict}, CorpusFiles)

SpecCorpus == InitCorpus /\ [][Next]_vars

-----------------------------------------------------------------------------
(* The distance model: edit_distance on every pair of short strings        *)

\* The strings of the distance model: at most MaxStr of the chars a and e.
DistanceStrings ==
    UNION {[1..n -> {Ord[c] : c \in {"a", "e"}}] : n \in 0..MaxStr}

InitDistance == InitFrom({<<>>}, {MainDict}, {MainCorpus})

EditDistance ==
    \E a \in DistanceStrings, b \in DistanceStrings :
        /\ op = "new"
        /\ Call("edit_distance", [source |-> a, target |-> b], edit_distance(a, b))

NextDistance == EditDistance

SpecDistance == InitDistance /\ [][NextDistance]_vars

-----------------------------------------------------------------------------
(* The ranking model: Misspelling::suggest on corpora of up to MaxEntries  *)
(* lines                                                                   *)

\* The k-th line of the list the corpora are cut from: a word of two
\* letters (eleven different words, then the same again) and a popularity
\* of one digit (most of them on two lines).
EntryLine(k) ==
    LET letters == <<"a", "e", "h", "i", "s", "t", "x">>
        m       == k % 11
    IN  <<Ord[letters[(m % 7) + 1]], Ord[letters[(m \div 7) + 5]], 32,
          48 + (((k * 5) % 13) \div 2)>>

\* The suggestion_dict.txt files: the lines i..j of the list, for all i, j,
\* in the order of the list and in the reverse order.
RankFiles ==
    {[k \in 1..(j - i + 1) |-> EntryLine(i + k - 1)] :
        i \in 1..(MaxEntries + 1), j \in 0..MaxEntries}
    \cup
    {[k \in 1..(j - i + 1) |-> EntryLine(j - k + 1)] :
        i \in 1..(MaxEntries + 1), j \in 0..MaxEntries}

\* The misspelled words suggestions are asked for.
SuggestWords == { Str(<<"T", "h", "s">>), Str(<<"x", "t">>), Str(<<"e">>) }

InitRank == InitFrom({<<>>}, {MainDict}, RankFiles)

\* Misspelling::suggest for a word: one of the lists it can compute.
Suggest ==
    \E w \in SuggestWords :
        /\ op = "new"
        /\ \E sg \in Suggestions(w, suggestion_dict) :
              Call("suggest", [word |-> w], sg)

\* The same call, observed entry by entry.
SuggestLoop ==
    \E w \in SuggestWords :
        /\ op = "new"
        /\ \E steps \in RankSteps(w, suggestion_dict, {}) :
              Call("suggest_loop", [word |-> w], steps)

NextRank ==
    \/ Suggest
    \/ SuggestLoop

SpecRank == InitRank /\ [][NextRank]_vars

-----------------------------------------------------------------------------
(* The ordering model: SuggestionPriority's cmp and eq on every pair       *)

\* The priorities compared: every edit distance up to MaxDist with small and
\* extreme popularities.
Priorities ==
    {SuggestionPriority(d, p) : d \in 0..MaxDist, p \in {I64_MIN, -1, 0, 1, I64_MAX}}

InitOrder == InitFrom({<<>>}, {MainDict}, {MainCorpus})

Cmp ==
    \E a \in Priorities, b \in Priorities :
        /\ op = "new"
        /\ Call("cmp", [self |-> a, other |-> b], PriorityCmp(a, b))

Eq ==
    \E a \in Priorities, b \in Priorities :
        /\ op = "new"
        /\ Call("eq", [self |-> a, other |-> b], PriorityEq(a, b))

NextOrder ==
    \/ Cmp
    \/ Eq

SpecOrder == InitOrder /\ [][NextOrder]_vars

-----------------------------------------------------------------------------
(* The index model: a session in which the caller also stores any index in *)
(* the public selection fields and calls the Spellchecker with any index   *)

\* The buffers of the index model: no misspelled word, or one.
IndexBuffers == { <<>>, Str(<<"T", "h", "s">>) }

\* The selections a caller can store: none, or an index up to MaxIndex.
Selections == {None} \cup {Some(i) : i \in 0..MaxIndex}

InitIndex == InitFrom(IndexBuffers, {MainDict}, {MainCorpus})

\* The caller assigns the public fields selected_misspelling and
\* selected_suggestion.
SetSelection ==
    \E m \in Selections, g \in Selections :
        /\ Do("set_selection", [Cur EXCEPT !.selected_misspelling = m,
                                           !.selected_suggestion = g])
        /\ UNCHANGED checks

\* The function name, called with the arguments a, returned r and left the
\* state st.
DoCall(name, a, r, st) ==
    /\ ~failed
    /\ file_buffer' = st.file_buffer
    /\ selected_misspelling' = st.selected_misspelling
    /\ selected_suggestion' = st.selected_suggestion
    /\ misspellings_list_state' = st.misspellings_list_state
    /\ misspellings' = st.misspellings
    /\ failed' = st.failed
    /\ op' = name
    /\ prev' = Cur
    /\ args' = a
    /\ ret' = r
    /\ UNCHANGED <<dict, suggestion_dict, checks>>

\* Spellchecker::suggest(misspelling_index)
SpellcheckerSuggest ==
    \E i \in 0..MaxIndex :
        IF i >= Len(misspellings)
           \/ (misspellings[i + 1].suggestions = <<>> /\ SuggestPanics(suggestion_dict))
        THEN CallPanics("Spellchecker::suggest", [misspelling_index |-> i])
        ELSE \E ms \in Spellchecker_suggest(misspellings, i, suggestion_dict) :
                DoCall("Spellchecker::suggest", [misspelling_index |-> i], <<>>,
                       [Cur EXCEPT !.misspellings = ms])

\* Spellchecker::get_suggestions(misspelling_index)
GetSuggestions ==
    \E i \in 0..MaxIndex :
        IF i >= Len(misspellings)
        THEN CallPanics("Spellchecker::get_suggestions", [misspelling_index |-> i])
        ELSE DoCall("Spellchecker::get_suggestions", [misspelling_index |-> i],
                    misspellings[i + 1].suggestions, Cur)

NextIndex ==
    \/ Next
    \/ SetSelection
    \/ SpellcheckerSuggest
    \/ GetSuggestions

SpecIndex == InitIndex /\ [][NextIndex]_vars

-----------------------------------------------------------------------------
(* The case model: match_case on every pair of short strings               *)

\* The strings of the case model: at most MaxCase of the chars a, E, 3 and
\* U+00DF (sharp s, a lower-case letter whose upper case is "SS").
CaseStrings == UNION {[1..n -> {97, 69, 51, 223}] : n \in 0..MaxCase}

InitCase == InitFrom({<<>>}, {MainDict}, {MainCorpus})

MatchCase ==
    \E a \in CaseStrings, b \in CaseStrings :
        /\ op = "new"
        /\ Call("match_case", [source |-> a, target |-> b], match_case(a, b))

NextCase == MatchCase

SpecCase == InitCase /\ [][NextCase]_vars

-----------------------------------------------------------------------------
(* The suggestion-index model: get_next_suggestion_index and               *)
(* get_previous_suggestion_index on misspellings of 0..MaxSuggestions      *)
(* suggestions                                                             *)

\* A misspelling with n suggestions.
WithSuggestions(n) ==
    [Misspelling(Str(<<"T", "h", "s">>), 0, 2)
       EXCEPT !.suggestions = [k \in 1..n |-> <<96 + k>>]]

\* The values of current_selection: none, an index up to one beyond the
\* longest list, or usize::MAX.
CurrentSelections ==
    {None, Some(USIZE_MAX)} \cup {Some(i) : i \in 0..(MaxSuggestions + 1)}

InitSelect == InitFrom({<<>>}, {MainDict}, {MainCorpus})

GetNextSuggestionIndex ==
    \E n \in 0..MaxSuggestions, c \in CurrentSelections :
        /\ op = "new"
        /\ Call("get_next_suggestion_index",
                [suggestions |-> WithSuggestions(n).suggestions,
                 current_selection |-> c],
                get_next_suggestion_index(WithSuggestions(n), c))

GetPreviousSuggestionIndex ==
    \E n \in 0..MaxSuggestions, c \in CurrentSelections :
        /\ op = "new"
        /\ Call("get_previous_suggestion_index",
                [suggestions |-> WithSuggestions(n).suggestions,
                 current_selection |-> c],
                get_previous_suggestion_index(WithSuggestions(n), c))

NextSelect ==
    \/ GetNextSuggestionIndex
    \/ GetPreviousSuggestionIndex

SpecSelect == InitSelect /\ [][NextSelect]_vars

-----------------------------------------------------------------------------
(* The event-loop model: the session as update drives it                   *)

\* The key events update tells apart: none (or a key without a handler),
\* Tab, Shift+BackTab, j, k and Enter.
Keys == {"none", "Tab", "BackTab", "j", "k", "Enter"}

\* The AppState method a key runs.
KeyOp(key) ==
    CASE key = "Tab"     -> "select_next_misspelling"
      [] key = "BackTab" -> "select_previous_misspelling"
      [] key = "j"       -> "select_next_suggestion"
      [] key = "k"       -> "select_previous_suggestion"
      [] key = "Enter"   -> "accept_suggestion"
      [] OTHER           -> "update"

\* misspelling_selection, suggestion_selection and accept_suggestion of
\* update.rs for one key event: the states they can leave.
HandleKey(st, key) ==
    CASE key = "Tab"     -> {select_next_misspelling(st)}
      [] key = "BackTab" -> {select_previous_misspelling(st)}
      [] key = "j"       -> {select_next_suggestion(st)}
      [] key = "k"       -> {select_previous_suggestion(st)}
      [] key = "Enter"   -> accept_suggestion(st)
      [] OTHER           -> {st}

\* update handling the key without calling suggest_selected first.
UpdateWithoutSuggest(st, key, lines) ==
    {[handled |-> TRUE, before |-> st, after |-> e] : e \in HandleKey(st, key)}

\* update: suggest_selected, then the handlers of the key event.  The runs
\* it can take, each with the state the key was handled in (before) and the
\* state update left (after); handled is FALSE when suggest_selected
\* panicked.
update(st, key, lines) ==
    UNION {IF mid.failed
           THEN {[handled |-> FALSE, before |-> st, after |-> mid]}
           ELSE {[handled |-> TRUE, before |-> mid, after |-> e] :
                   e \in HandleKey(mid, key)} :
           mid \in suggest_selected(st, lines)}

InitLoop == InitWith(Buffers)

\* One pass of the loop of run: update with the next key event.  args keeps
\* the state update started from, prev the state the key was handled in.
Update ==
    /\ checks = 1
    /\ ~failed
    /\ \E key \in Keys : \E u \in update(Cur, key, suggestion_dict) :
          /\ file_buffer' = u.after.file_buffer
          /\ selected_misspelling' = u.after.selected_misspelling
          /\ selected_suggestion' = u.after.selected_suggestion
          /\ misspellings_list_state' = u.after.misspellings_list_state
          /\ misspellings' = u.after.misspellings
          /\ failed' = u.after.failed
          /\ op' = IF u.handled THEN KeyOp(key) ELSE "suggest_selected"
          /\ prev' = u.before
          /\ args' = Cur
          /\ ret' = <<>>
    /\ UNCHANGED <<dict, suggestion_dict, checks>>

NextLoop ==
    \/ CheckSpelling
    \/ Update

SpecLoop == InitLoop /\ [][NextLoop]_vars

-----------------------------------------------------------------------------
(* Properties                                                              *)

\* The 0-based index of the misspelling that was selected before the last
\* operation, the misspelling itself, and the selected suggestion with its
\* case matched.
PrevIdx == Unwrap(prev.selected_misspelling)

PrevSelected == prev.misspellings[PrevIdx + 1]

PrevSuggestion ==
    match_case(PrevSelected.word,
               PrevSelected.suggestions[Unwrap(prev.selected_suggestion) + 1])

\* The last operation was accept_suggestion with both selections set.
Accepted ==
    /\ op = "accept_suggestion"
    /\ prev.selected_misspelling # None
    /\ prev.selected_suggestion # None

\* ... and the selected suggestion existed.
AcceptedSuggestion ==
    /\ Accepted
    /\ Unwrap(prev.selected_suggestion) < Len(PrevSelected.suggestions)

\* The list ms is sorted strictly ascending by start, with start <= end in
\* every entry and every entry ending before the next one starts.
SortedDisjoint(ms) ==
    /\ \A k \in 1..Len(ms) : ms[k].start <= ms[k].end
    /\ \A k \in 1..(Len(ms) - 1) :
         ms[k].start < ms[k + 1].start /\ ms[k].end < ms[k + 1].start

\* The chars of buffer at the 0-based offsets start..end (inclusive) are word.
PositionedAt(buffer, m) ==
    /\ m.start <= m.end
    /\ m.end < Len(buffer)
    /\ Sub(buffer, m.start + 1, m.end + 1) = m.word

\* C1: in a session that starts with check on a fresh checker, after any
\* navigation, suggest and accept_suggestion operations the chars of the
\* buffer at the offsets start..end of every listed misspelling are its word.
C1_EveryMisspellingPositioned ==
    ~failed => \A k \in 1..Len(misspellings) : PositionedAt(file_buffer, misspellings[k])

\* C2: accept_suggestion with a misspelling and one of its suggestions
\* selected leaves the buffer old[0, start) ++ match_case(word, suggestion)
\* ++ old[end + 1 ..], start and end being character offsets.
C2_SpliceAtCharOffsets ==
    AcceptedSuggestion =>
        /\ ~failed
        /\ file_buffer =
             Sub(prev.file_buffer, 1, PrevSelected.start)
               \o PrevSuggestion
               \o Sub(prev.file_buffer, PrevSelected.end + 2, Len(prev.file_buffer))

\* The signed offset accept_suggestion hands to offset_misspelling_positions.
PrevDelta ==
    ByteLen(PrevSuggestion) - (PrevSelected.end - PrevSelected.start + 1)

\* C3: after accept_suggestion of the entry at list position i, the entries
\* that came after it have start and end increased by the offset handed to
\* offset_misspelling_positions, and the entries before it are untouched.
C3_ShiftsExactlyTheLaterEntries ==
    (AcceptedSuggestion /\ ~failed) =>
        /\ Len(misspellings) = Len(prev.misspellings) - 1
        /\ \A k \in 1..Len(misspellings) :
             IF k <= PrevIdx
             THEN misspellings[k] = prev.misspellings[k]
             ELSE /\ misspellings[k].start = prev.misspellings[k + 1].start + PrevDelta
                  /\ misspellings[k].end = prev.misspellings[k + 1].end + PrevDelta

\* An accept_suggestion of a middle entry that changed the length.
C3_Witness ==
    /\ AcceptedSuggestion
    /\ ~failed
    /\ PrevIdx >= 1
    /\ PrevIdx + 1 < Len(prev.misspellings)
    /\ PrevDelta < 0

\* C4: after accept_suggestion with both selections set the buffer's length
\* in characters has changed by delta = Len(adjusted suggestion) -
\* (end - start + 1), and that delta is what was added to the positions of
\* the later misspellings.
C4_LengthChangesByDelta ==
    (AcceptedSuggestion /\ ~failed) =>
        LET delta == Len(PrevSuggestion) - (PrevSelected.end - PrevSelected.start + 1)
        IN  /\ Len(file_buffer) = Len(prev.file_buffer) + delta
            /\ \A k \in (PrevIdx + 1)..Len(misspellings) :
                 /\ misspellings[k].start = prev.misspellings[k + 1].start + delta
                 /\ misspellings[k].end = prev.misspellings[k + 1].end + delta

\* C5: accept_suggestion with both selections set takes exactly the selected
\* entry from the list, the others keeping their order, words and
\* suggestions; navigation and suggest never change the number of entries.
C5_RemovedExactlyWhenAccepted ==
    /\ Accepted =>
         /\ Len(misspellings) = Len(prev.misspellings) - 1
         /\ \A k \in 1..Len(misspellings) :
              LET old == prev.misspellings[IF k <= PrevIdx THEN k ELSE k + 1]
              IN  /\ misspellings[k].word = old.word
                  /\ misspellings[k].suggestions = old.suggestions
    /\ op \in {"select_next_misspelling", "select_previous_misspelling",
               "select_next_suggestion", "select_previous_suggestion",
               "suggest_selected"}
         => Len(misspellings) = Len(prev.misspellings)

\* The first of several entries was accepted, with its suggestions computed
\* and those of the others not.
C5_Witness ==
    /\ AcceptedSuggestion
    /\ ~failed
    /\ PrevIdx = 0
    /\ Len(prev.misspellings) >= 2
    /\ misspellings[1].suggestions = <<>>

\* C6: accept_suggestion without a selected misspelling or suggestion, and
\* suggestion navigation and suggest_selected without a selected misspelling,
\* change nothing and do not fail.
C6_NoSelectionNoOp ==
    /\ (op = "accept_suggestion"
          /\ (prev.selected_misspelling = None \/ prev.selected_suggestion = None))
         => Cur = prev
    /\ (op \in {"select_next_suggestion", "select_previous_suggestion",
                "suggest_selected"}
          /\ prev.selected_misspelling = None)
         => Cur = prev

\* accept_suggestion ran with a misspelling selected (its suggestions
\* computed) and no suggestion selected.
C6_Witness ==
    /\ op = "accept_suggestion"
    /\ prev.selected_misspelling # None
    /\ prev.selected_suggestion = None
    /\ PrevSelected.suggestions # <<>>

\* C7: after check on a freshly constructed checker the list is sorted
\* strictly ascending by start and its ranges are pairwise disjoint.
C7_CheckSortedDisjoint ==
    (op = "check_spelling" /\ checks = 1) => SortedDisjoint(misspellings)

\* A first check that found several misspellings.
C7_Witness ==
    /\ op = "check_spelling"
    /\ checks = 1
    /\ Len(misspellings) >= 2

\* C8: check replaces the list: after any call the list holds exactly the
\* misspellings of the buffer, whatever it held before.
C8_CheckReplacesList ==
    op = "check_spelling" => misspellings = check(<<>>, file_buffer, dict).ms

\* C9: in a session that starts with check on a fresh checker, the list stays
\* sorted ascending by start with pairwise disjoint ranges whatever is
\* navigated, suggested and accepted.
C9_EditsKeepSortedDisjoint == SortedDisjoint(misspellings)

\* An accept_suggestion that shortened the text and left entries on both
\* sides of the edit.
C9_Witness ==
    /\ AcceptedSuggestion
    /\ ~failed
    /\ PrevIdx >= 1
    /\ Len(misspellings) > PrevIdx
    /\ PrevDelta < 0

\* C10: select_next_misspelling with N misspellings selects nothing if
\* N = 0, index 0 if nothing was selected, and after index i the index i + 1,
\* or 0 when i was the last index.
C10_SelectNext ==
    op = "select_next_misspelling" =>
        LET N == Len(prev.misspellings)
        IN  IF N = 0 THEN selected_misspelling = None
            ELSE IF prev.selected_misspelling = None
                 THEN selected_misspelling = Some(0)
            ELSE selected_misspelling =
                   IF PrevIdx + 1 < N THEN Some(PrevIdx + 1) ELSE Some(0)

\* select_next_misspelling ran at the last of several misspellings.
C10_Witness ==
    /\ op = "select_next_misspelling"
    /\ Len(prev.misspellings) >= 2
    /\ prev.selected_misspelling = Some(Len(prev.misspellings) - 1)

\* C11: select_previous_misspelling with N > 0 misspellings and index i
\* selected selects i - 1 when i > 0 and the last index N - 1 when i = 0 (the
\* usize::MAX sentinel is never left as the selection); with N = 0 nothing is
\* selected afterwards.
C11_SelectPrevious ==
    op = "select_previous_misspelling" =>
        LET N == Len(prev.misspellings)
        IN  /\ selected_misspelling # Some(USIZE_MAX)
            /\ N = 0 => selected_misspelling = None
            /\ (N > 0 /\ prev.selected_misspelling # None) =>
                 selected_misspelling =
                   IF PrevIdx > 0 THEN Some(PrevIdx - 1) ELSE Some(N - 1)

\* select_previous_misspelling ran at index 0 of several misspellings.
C11_Witness ==
    /\ op = "select_previous_misspelling"
    /\ Len(prev.misspellings) >= 2
    /\ prev.selected_misspelling = Some(0)
    /\ selected_misspelling = Some(Len(prev.misspellings) - 1)

\* C12 as stated: with N misspellings, N calls of select_next_misspelling and
\* N calls of select_previous_misspelling each return to the original
\* selection, whatever it was (no selection included).
C12_WrapsFromEverySelection ==
    ~failed =>
        /\ SelectNextTimes(Cur, Len(misspellings)).selected_misspelling
             = selected_misspelling
        /\ SelectPreviousTimes(Cur, Len(misspellings)).selected_misspelling
             = selected_misspelling

\* C12 amended: from a selected index, N calls of select_next_misspelling and
\* N calls of select_previous_misspelling each return to that index; from no
\* selection, with N > 0, they end at a selected index (N - 1 going forward).
C12_WrapsFromSelectedIndex ==
    ~failed =>
        LET N == Len(misspellings)
            n == SelectNextTimes(Cur, N)
            p == SelectPreviousTimes(Cur, N)
        IN  /\ selected_misspelling # None =>
                 /\ n.selected_misspelling = selected_misspelling
                 /\ p.selected_misspelling = selected_misspelling
            /\ (selected_misspelling = None /\ N > 0) =>
                 /\ n.selected_misspelling = Some(N - 1)
                 /\ p.selected_misspelling # None

\* A middle index of three misspellings is selected: going round passes the
\* wrap in both directions.
C12_Witness ==
    /\ ~failed
    /\ Len(misspellings) = 3
    /\ selected_misspelling = Some(1)
    /\ SelectNextTimes(Cur, 2).selected_misspelling = Some(0)
    /\ SelectPreviousTimes(Cur, 2).selected_misspelling = Some(2)

\* C13: after accept_suggestion of the misspelling at index i, with n entries
\* left, nothing is selected if n = 0, index i stays selected if i <= n - 1,
\* and index 0 is selected if i > n - 1 (the last entry was accepted).
C13_SelectionAfterAccept ==
    (AcceptedSuggestion /\ ~failed) =>
        LET n == Len(misspellings)
        IN  /\ selected_misspelling =
                 IF n = 0 THEN None
                 ELSE IF PrevIdx <= n - 1 THEN Some(PrevIdx)
                 ELSE Some(0)
            /\ misspellings_list_state = selected_misspelling

\* The last of several entries was accepted and index 0 became selected.
C13_Witness ==
    /\ AcceptedSuggestion
    /\ ~failed
    /\ Len(prev.misspellings) >= 3
    /\ PrevIdx = Len(prev.misspellings) - 1
    /\ selected_misspelling = Some(0)

\* The word has the shape that is never correct: empty, or with a space.
NotAWord(w) == w = <<>> \/ \E k \in 1..Len(w) : w[k] = 32

\* C14: is_word_correct is false, and search_for_word is None, for the empty
\* string and for every word with a space in it, whatever the dictionary
\* holds (that very string included).
C14_NotAWordNeverCorrect ==
    /\ (op = "is_word_correct" /\ NotAWord(args.word)) =>
         (~failed /\ ret = FALSE)
    /\ (op = "search_for_word" /\ NotAWord(args.word)) =>
         (~failed /\ ret = None)

\* is_word_correct was asked for a string with a space that is an entry of
\* the dictionary.
C14_Witness ==
    /\ op = "is_word_correct"
    /\ Len(args.word) = 3
    /\ NotAWord(args.word)
    /\ \E k \in 1..Len(dict) : dict[k] = args.word

\* The chars of a string.
Range(w) == {w[k] : k \in 1..Len(w)}

\* The word w with its upper-case ASCII letters replaced by the lower-case
\* ones.
Lower(w) == [k \in 1..Len(w) |-> IF w[k] \in 65..90 THEN w[k] + 32 ELSE w[k]]

\* The dictionary d is sorted strictly ascending (in the order of Rust's
\* strings), so its words are unique.
SortedAscending(d) == \A k \in 1..(Len(d) - 1) : StrGreater(d[k + 1], d[k])

\* The dictionary d is what the lookups expect: not empty, sorted, of
\* lower-case words (no empty entry, no space in an entry).
IsDictionary(d) ==
    /\ d # <<>>
    /\ SortedAscending(d)
    /\ \A k \in 1..Len(d) : ~NotAWord(d[k]) /\ Lower(d[k]) = d[k]

\* C15: on a non-empty sorted dictionary of unique lower-case words and a
\* word w without spaces, is_word_correct(w) is true exactly when lower(w) is
\* an entry, whatever the case of w and the place of the entry; when found,
\* search_for_word returns the index of that entry.
C15_CorrectIffInDictionary ==
    (IsDictionary(dict) /\ args # <<>> /\ 32 \notin Range(args.word)) =>
        LET w  == Lower(args.word)
            at == {k \in 1..Len(dict) : dict[k] = w}
        IN  /\ ~failed
            /\ op = "is_word_correct" => (ret = (at # {}))
            /\ op = "search_for_word" =>
                 IF at = {} THEN ret = None
                 ELSE ret # None /\ dict[Unwrap(ret) + 1] = w

\* An upper-case spelling of the last word of a dictionary of three words
\* was looked up and found.
C15_Witness ==
    /\ IsDictionary(dict)
    /\ Len(dict) = 3
    /\ op = "search_for_word"
    /\ args.word # dict[3]
    /\ ret = Some(2)

\* C16: whatever the order of the lines of dict.txt, the dictionary of the
\* constructed Spellchecker is sorted ascending, and every word listed in
\* the file is found correct.
C16_LoadedDictionarySorted ==
    (op = "is_word_correct" /\ ~failed) =>
        /\ \A k \in 1..(Len(dict) - 1) : ~StrGreater(dict[k], dict[k + 1])
        /\ (args.word \in Range(dict) /\ ~NotAWord(args.word)) => ret = TRUE

\* C17: a malformed line of suggestion_dict.txt makes Spellchecker::new fail,
\* so that a constructed engine holds no such line, and suggesting on a
\* constructed engine never fails.
C17_MalformedCorpusFailsAtLoad ==
    (op = "suggest_selected" /\ prev.selected_misspelling # None) =>
        /\ \A k \in 1..Len(suggestion_dict) : ~EntryPanics(suggestion_dict[k])
        /\ ~failed

\* The strings one deletion away from s.
Deletions(s) ==
    {SubSeq(s, 1, i - 1) \o SubSeq(s, i + 1, Len(s)) : i \in 1..Len(s)}

\* c comes from b by one deletion, one insertion or one substitution.
OneEdit(b, c) ==
    \/ c \in Deletions(b)
    \/ b \in Deletions(c)
    \/ Len(b) = Len(c) /\ Cardinality({i \in 1..Len(b) : b[i] # c[i]}) = 1

\* The pairs of strings at most k single-character edits apart.
Within[k \in 0..MaxStr] ==
    IF k = 0 THEN {<<s, s>> : s \in DistanceStrings}
    ELSE Within[k - 1] \cup
         {p \in DistanceStrings \X DistanceStrings :
            \E b \in DistanceStrings :
                <<p[1], b>> \in Within[k - 1] /\ OneEdit(b, p[2])}

\* The Levenshtein distance: the least number of single-character edits that
\* turn a into b.
Levenshtein(a, b) ==
    CHOOSE k \in 0..MaxStr :
        /\ <<a, b>> \in Within[k]
        /\ k = 0 \/ <<a, b>> \notin Within[k - 1]

\* C18: edit_distance(a, b) is the Levenshtein distance of a and b; in
\* particular edit_distance(a, a) = 0 and edit_distance("", s) =
\* edit_distance(s, "") = length(s).
C18_EditDistanceIsLevenshtein ==
    op = "edit_distance" =>
        /\ ret = Levenshtein(args.source, args.target)
        /\ args.source = args.target => ret = 0
        /\ args.source = <<>> => ret = Len(args.target)
        /\ args.target = <<>> => ret = Len(args.source)

\* The distance of two strings of different lengths that takes a
\* substitution and an insertion or deletion.
C18_Witness ==
    /\ op = "edit_distance"
    /\ Len(args.source) = 3
    /\ Len(args.target) = 2
    /\ args.source[1] # args.target[1]
    /\ ret = 2

\* C19: edit_distance(a, b) = edit_distance(b, a).
C19_EditDistanceSymmetric ==
    op = "edit_distance" => ret = edit_distance(args.target, args.source)

\* The distance of a string from the empty string.
C19_Witness ==
    /\ op = "edit_distance"
    /\ args.source = <<>>
    /\ Len(args.target) >= 2
    /\ ret = Len(args.target)

\* The word of a corpus line and its popularity, read off the line: the
\* chars before the space, and the digit after it.
LineWord(line) == SubSeq(line, 1, (CHOOSE i \in 1..Len(line) : line[i] = 32) - 1)

LinePopularity(line) == line[Len(line)] - 48

\* The popularity a word ends with: that of the last line naming it.
PopularityOf(w, lines) ==
    LinePopularity(lines[CHOOSE k \in 1..Len(lines) :
                           /\ LineWord(lines[k]) = w
                           /\ \A l \in (k + 1)..Len(lines) : LineWord(lines[l]) # w])

\* C20: Misspelling::suggest yields at most 10 suggestions, best first: along
\* the list the edit distance to the (lower-cased) word never decreases and,
\* where it stays equal, the popularity never increases; an empty corpus
\* yields an empty list.
C20_AtMostTenBestFirst ==
    op = "suggest" =>
        LET lines == suggestion_dict
            dist(w) == edit_distance(Lower(args.word), w)
        IN  /\ Len(ret) <= 10
            /\ lines = <<>> => ret = <<>>
            /\ \A k \in 1..Len(ret) :
                 \E l \in 1..Len(lines) : LineWord(lines[l]) = ret[k]
            /\ \A k \in 1..(Len(ret) - 1) :
                 \/ dist(ret[k]) < dist(ret[k + 1])
                 \/ /\ dist(ret[k]) = dist(ret[k + 1])
                    /\ PopularityOf(ret[k], lines) >= PopularityOf(ret[k + 1], lines)

\* A corpus of more than ten different words gave ten suggestions, the first
\* closer to the word than the last.
C20_Witness ==
    /\ op = "suggest"
    /\ Cardinality({LineWord(suggestion_dict[l]) : l \in 1..Len(suggestion_dict)}) > 10
    /\ Len(ret) = 10
    /\ edit_distance(Lower(args.word), ret[1]) < edit_distance(Lower(args.word), ret[10])

\* The words of the corpus lines.
LineWords(lines) == {LineWord(lines[l]) : l \in 1..Len(lines)}

\* The corpus word v is a strictly better suggestion for word than w: closer
\* to it, or as close and more popular.
StrictlyBetter(word, lines, v, w) ==
    LET dv == edit_distance(Lower(word), v)
        dw == edit_distance(Lower(word), w)
    IN  \/ dv < dw
        \/ dv = dw /\ PopularityOf(v, lines) > PopularityOf(w, lines)

\* C21: for a corpus of n different words, in any order of its lines, the
\* result has exactly min(10, n) entries, all different, and no word left
\* out is a strictly better suggestion than a word that is included.
C21_BestOfTheCorpus ==
    (op = "suggest"
       /\ Cardinality(LineWords(suggestion_dict)) = Len(suggestion_dict)) =>
        LET n == Len(suggestion_dict)
        IN  /\ Len(ret) = IF n < 10 THEN n ELSE 10
            /\ Cardinality(Range(ret)) = Len(ret)
            /\ Range(ret) \subseteq LineWords(suggestion_dict)
            /\ \A v \in LineWords(suggestion_dict) \ Range(ret) :
                 \A w \in Range(ret) :
                    ~StrictlyBetter(args.word, suggestion_dict, v, w)

\* Of a corpus of eleven different words the word left out is not the one
\* of the last line, and it is strictly worse than a word included.
C21_Witness ==
    /\ op = "suggest"
    /\ Len(suggestion_dict) = 11
    /\ Cardinality(LineWords(suggestion_dict)) = 11
    /\ Len(ret) = 10
    /\ LineWord(suggestion_dict[11]) \in Range(ret)
    /\ \E v \in LineWords(suggestion_dict) \ Range(ret) :
         \E w \in Range(ret) : StrictlyBetter(args.word, suggestion_dict, w, v)

\* C22: cmp ranks the smaller edit distance Greater (better) whatever the
\* popularities and, among equal edit distances, the larger popularity
\* Greater; it is a total order (antisymmetric, transitive) and Equal exactly
\* when eq holds, which is exactly when both fields are equal; also for the
\* extreme popularities.
C22_PriorityOrder ==
    /\ op = "cmp" =>
         LET a == args.self
             b == args.other
         IN  /\ ret = IF a.edit_distance < b.edit_distance THEN "Greater"
                      ELSE IF a.edit_distance > b.edit_distance THEN "Less"
                      ELSE IF a.popularity > b.popularity THEN "Greater"
                      ELSE IF a.popularity < b.popularity THEN "Less"
                      ELSE "Equal"
             /\ (ret = "Equal") = (a = b)
             /\ (ret = "Equal") = PriorityEq(a, b)
             /\ (ret = "Greater") = (PriorityCmp(b, a) = "Less")
             /\ \A c \in Priorities :
                  (ret = "Greater" /\ PriorityCmp(b, c) = "Greater")
                     => PriorityCmp(a, c) = "Greater"
    /\ op = "eq" => ret = (args.self = args.other)

\* A closer priority of the least popularity was compared with a farther one
\* of the greatest popularity, and found Greater.
C22_Witness ==
    /\ op = "cmp"
    /\ args.self.edit_distance < args.other.edit_distance
    /\ args.self.popularity = I64_MIN
    /\ args.other.popularity = I64_MAX
    /\ ret = "Greater"

\* C23: Spellchecker::suggest(i) fills the suggestion list of entry i only:
\* the word, start and end of that entry, every other entry and the length
\* of the list stay as they were; on an entry whose suggestions are already
\* there it changes nothing.
C23_SuggestLocalIdempotent ==
    (op = "suggest_selected" /\ prev.selected_misspelling # None /\ ~failed) =>
        LET old == prev.misspellings
            new == misspellings[PrevIdx + 1]
        IN  /\ Len(misspellings) = Len(old)
            /\ \A k \in 1..Len(old) : k # PrevIdx + 1 => misspellings[k] = old[k]
            /\ new.word = PrevSelected.word
            /\ new.start = PrevSelected.start
            /\ new.end = PrevSelected.end
            /\ IF PrevSelected.suggestions # <<>>
               THEN new.suggestions = PrevSelected.suggestions
               ELSE new.suggestions \in Suggestions(PrevSelected.word, suggestion_dict)
            /\ [Cur EXCEPT !.misspellings = old] = prev

\* A second suggest on an entry, while another entry has no suggestions yet.
C23_Witness ==
    /\ op = "suggest_selected"
    /\ prev.selected_misspelling # None
    /\ ~failed
    /\ PrevSelected.suggestions # <<>>
    /\ \E k \in 1..Len(misspellings) : misspellings[k].suggestions = <<>>

\* C24: an index that names no misspelling (or no suggestion) is a failure,
\* never a no-op or a clamped access: Spellchecker::suggest(i) and
\* get_suggestions(i) with i >= the length of the list fail, and
\* accept_suggestion with a selected misspelling index or suggestion index
\* out of range fails.
C24_MissingIndexFails ==
    /\ (op \in {"Spellchecker::suggest", "Spellchecker::get_suggestions"}
          /\ args.misspelling_index >= Len(prev.misspellings)) => failed
    /\ (Accepted /\ PrevIdx >= Len(prev.misspellings)) => failed
    /\ (Accepted /\ PrevIdx < Len(prev.misspellings)
          /\ Unwrap(prev.selected_suggestion) >= Len(PrevSelected.suggestions))
         => failed

\* accept_suggestion ran with a suggestion index beyond the suggestions of
\* the selected misspelling, which has some.
C24_Witness ==
    /\ Accepted
    /\ PrevIdx < Len(prev.misspellings)
    /\ PrevSelected.suggestions # <<>>
    /\ Unwrap(prev.selected_suggestion) >= Len(PrevSelected.suggestions)
    /\ failed

\* The separators of the spec: whitespace and . , ! ? ; : &
IsSeparator(c) == IsWhitespace(c) \/ c \in {46, 44, 33, 63, 59, 58, 38}

\* The tokens of buffer: the maximal runs of non-separators, as pairs of the
\* 0-based offsets of their first and last char.
Tokens(buffer) ==
    {t \in (0..(Len(buffer) - 1)) \X (0..(Len(buffer) - 1)) :
        /\ t[1] <= t[2]
        /\ \A k \in t[1]..t[2] : ~IsSeparator(buffer[k + 1])
        /\ t[1] = 0 \/ IsSeparator(buffer[t[1]])
        /\ t[2] = Len(buffer) - 1 \/ IsSeparator(buffer[t[2] + 2])}

\* The text of the token t of buffer.
TokenText(buffer, t) == SubSeq(buffer, t[1] + 1, t[2] + 1)

\* The token holds a char that is neither a letter nor an apostrophe.
HasInvalidChar(w) == \E k \in 1..Len(w) : ~(IsAlphabetic(w[k]) \/ w[k] \in {39, 8217})

\* The first check of a buffer has run.
FirstCheck == op = "check_spelling" /\ checks = 1 /\ ~failed

\* C25: a token with a char other than a letter or an apostrophe is never
\* added to the list, whatever its letters spell; every other token is
\* checked as usual (listed exactly when its lower-cased text is no
\* dictionary word), also next to such a token.
C25_InvalidTokensDropped ==
    FirstCheck =>
        \A t \in Tokens(file_buffer) :
            LET w      == TokenText(file_buffer, t)
                listed == \E k \in 1..Len(misspellings) :
                             /\ misspellings[k].start = t[1]
                             /\ misspellings[k].end = t[2]
            IN  IF HasInvalidChar(w)
                THEN \A k \in 1..Len(misspellings) :
                        misspellings[k].end < t[1] \/ misspellings[k].start > t[2]
                ELSE listed = (Lower(w) \notin Range(dict))

\* A buffer with a token that holds a digit, before a misspelled token.
C25_Witness ==
    /\ FirstCheck
    /\ Len(misspellings) = 1
    /\ \E t \in Tokens(file_buffer) :
         /\ HasInvalidChar(TokenText(file_buffer, t))
         /\ \E k \in t[1]..t[2] : file_buffer[k + 1] \in 48..57
         /\ misspellings[1].start > t[2]

\* C26: every misspelling check creates holds the text as written (case
\* kept), inclusive character offsets and no suggestions: the chars of the
\* buffer at start..end are its word, end - start + 1 is the number of chars
\* of the word, and no char of the word is a separator.
C26_MisspellingRecordsText ==
    FirstCheck =>
        \A k \in 1..Len(misspellings) :
            LET m == misspellings[k]
            IN  /\ m.start <= m.end
                /\ m.end < Len(file_buffer)
                /\ SubSeq(file_buffer, m.start + 1, m.end + 1) = m.word
                /\ m.end - m.start + 1 = Len(m.word)
                /\ m.suggestions = <<>>
                /\ \A j \in 1..Len(m.word) : ~IsSeparator(m.word[j])

\* A misspelling with a capital letter that comes after a two-byte char.
C26_Witness ==
    /\ FirstCheck
    /\ \E k \in 1..Len(misspellings) :
         /\ 73 \in Range(misspellings[k].word)
         /\ Len(misspellings[k].word) >= 2
         /\ misspellings[k].start >= 1
         /\ 233 \in Range(SubSeq(file_buffer, 1, misspellings[k].start))

\* C27: the tokens check examines are exactly the maximal runs of
\* non-separators: every entry of the list spans one of them (never an empty
\* word), a buffer without such a run gives an empty list, and a misspelled
\* word of letters is listed also when it ends the buffer with no separator
\* after it, with end = the index of the last char.
C27_TokensAreMaximalRuns ==
    FirstCheck =>
        /\ \A k \in 1..Len(misspellings) :
             /\ <<misspellings[k].start, misspellings[k].end>> \in Tokens(file_buffer)
             /\ misspellings[k].word # <<>>
        /\ Tokens(file_buffer) = {} => misspellings = <<>>
        /\ \A t \in Tokens(file_buffer) :
             LET w == TokenText(file_buffer, t)
             IN  (~HasInvalidChar(w) /\ Lower(w) \notin Range(dict)) =>
                    \E k \in 1..Len(misspellings) :
                        misspellings[k].start = t[1] /\ misspellings[k].end = t[2]

\* A buffer that starts with two separators and ends with a misspelled word.
C27_Witness ==
    /\ FirstCheck
    /\ Len(file_buffer) >= 4
    /\ IsSeparator(file_buffer[1])
    /\ IsSeparator(file_buffer[2])
    /\ Len(misspellings) = 1
    /\ misspellings[1].end = Len(file_buffer) - 1

\* C28 as stated: match_case(source, target) has as many chars as target; its char i
\* is target[i] upper-cased if source[i] is uppercase and lower-cased
\* otherwise, for every i within both strings, and target[i] for every i
\* beyond source; it equals target ignoring case.
C28_MatchCasePositional ==
    op = "match_case" =>
        /\ Len(ret) = Len(args.target)
        /\ \A i \in 1..Len(args.target) :
             <<ret[i]>> =
                IF i > Len(args.source) THEN <<args.target[i]>>
                ELSE IF IsUppercase(args.source[i])
                     THEN CharToUppercase(args.target[i])
                     ELSE CharToLowercase(args.target[i])
        /\ ToLowercase(ret) = ToLowercase(args.target)

RECURSIVE Concat(_)
\* The strings of the sequence ss, one after the other.
Concat(ss) == IF ss = <<>> THEN <<>> ELSE Head(ss) \o Concat(Tail(ss))

\* What match_case makes of the char at position i of target: its upper case
\* if the char of source at i is uppercase, its lower case if that char is
\* not, and the char itself beyond the end of source.  The upper case of one
\* char can be several chars.
CasedPiece(source, target, i) ==
    IF i > Len(source) THEN <<target[i]>>
    ELSE IF source[i] \in 65..90 \/ (source[i] \in 192..222 /\ source[i] # 215)
         THEN CharToUppercase(target[i])
         ELSE CharToLowercase(target[i])

\* C28 amended: match_case(source, target) is, position by position of
\* target, the char upper-cased if the char of source there is uppercase and
\* lower-cased otherwise, and the char unchanged beyond source; where each of
\* these is one char the result has as many chars as target and equals it
\* ignoring case; an empty source gives target, an empty target the empty
\* string.
C28_MatchCasePiecewise ==
    op = "match_case" =>
        LET pieces == [i \in 1..Len(args.target) |->
                         CasedPiece(args.source, args.target, i)]
        IN  /\ ret = Concat(pieces)
            /\ (\A i \in 1..Len(pieces) : Len(pieces[i]) = 1) =>
                  /\ Len(ret) = Len(args.target)
                  /\ Lower(ret) = Lower(args.target)
            /\ args.source = <<>> => ret = args.target
            /\ args.target = <<>> => ret = <<>>

\* A target of two chars, the first a sharp s under an uppercase char of a
\* source of one char: the result has three chars.
C28_Witness ==
    /\ op = "match_case"
    /\ Len(args.source) = 1
    /\ Len(args.target) = 2
    /\ args.target[2] = 69
    /\ ret = <<83, 83, 69>>

\* C29: get_next_suggestion_index(current) is None exactly when the
\* misspelling has no suggestions; otherwise it is 0 for None, current + 1
\* when that is an index of the list, and 0 in every other case, so it is
\* always an index of the list.
C29_NextSuggestionIndex ==
    op = "get_next_suggestion_index" =>
        LET n == Len(args.suggestions)
            c == args.current_selection
        IN  /\ (ret = None) = (n = 0)
            /\ n > 0 =>
                 /\ ret = IF c = None THEN Some(0)
                          ELSE IF c[1] + 1 < n THEN Some(c[1] + 1)
                          ELSE Some(0)
                 /\ ret[1] \in 0..(n - 1)

\* The next index was asked at the last of several suggestions.
C29_Witness ==
    /\ op = "get_next_suggestion_index"
    /\ Len(args.suggestions) >= 3
    /\ args.current_selection = Some(Len(args.suggestions) - 1)
    /\ ret = Some(0)

\* C30: get_previous_suggestion_index(current) is None when there are no
\* suggestions; otherwise it is the last index for None, current - 1 for a
\* selected index > 0, and the last index for the selected index 0.
C30_PreviousSuggestionIndex ==
    op = "get_previous_suggestion_index" =>
        LET n == Len(args.suggestions)
            c == args.current_selection
        IN  /\ n = 0 => ret = None
            /\ n > 0 =>
                 ret = IF c = None THEN Some(n - 1)
                       ELSE IF c[1] > 0 THEN Some(c[1] - 1)
                       ELSE Some(n - 1)

\* The previous index was asked with none selected, of several suggestions.
C30_Witness ==
    /\ op = "get_previous_suggestion_index"
    /\ Len(args.suggestions) >= 3
    /\ args.current_selection = None
    /\ ret = Some(Len(args.suggestions) - 1)

\* C31: in every state reached through AppState's operations, when a
\* misspelling and a suggestion are both selected the suggestion index is
\* below the number of suggestions of the selected misspelling, and
\* accept_suggestion never fails.
C31_SelectedSuggestionExists ==
    /\ (~failed /\ selected_misspelling # None /\ selected_suggestion # None
          /\ Unwrap(selected_misspelling) < Len(misspellings)) =>
         Unwrap(selected_suggestion)
            < Len(misspellings[Unwrap(selected_misspelling) + 1].suggestions)
    /\ op = "accept_suggestion" => ~failed

\* C32: in every state reached from check on a fresh checker by navigation,
\* suggest and accept_suggestion, selected_misspelling is None or an index
\* below the number of misspellings (never usize::MAX), and an operation
\* that looks the selected misspelling up does not fail.
C32_SelectedMisspellingExists ==
    /\ ~failed =>
         \/ selected_misspelling = None
         \/ Unwrap(selected_misspelling) < Len(misspellings)
    /\ op \in {"select_next_suggestion", "select_previous_suggestion",
               "suggest_selected"} => ~failed
    /\ (op = "accept_suggestion" /\ failed) =>
         Unwrap(prev.selected_misspelling) < Len(prev.misspellings)

\* The only misspelling left was accepted and nothing is selected any more.
C32_Witness ==
    /\ AcceptedSuggestion
    /\ ~failed
    /\ Len(prev.misspellings) = 1
    /\ prev.file_buffer # file_buffer
    /\ selected_misspelling = None


\* C33: in the event loop every update populates the suggestions of the
\* selected misspelling before its key is handled, so a key is never handled
\* with a selected misspelling whose suggestions are missing, and whenever
\* Enter accepts with both selections set the selected suggestion index is
\* within the suggestions of the selected misspelling, also right after
\* another accept or a change of the selected misspelling.
C33_SuggestBeforeKey ==
    (op \in {KeyOp(k) : k \in Keys} /\ prev.selected_misspelling # None
       /\ PrevIdx < Len(prev.misspellings)) =>
      /\ PrevSelected.suggestions
           \in Suggestions(PrevSelected.word, suggestion_dict)
      /\ (op = "accept_suggestion" /\ prev.selected_suggestion # None) =>
           Unwrap(prev.selected_suggestion) < Len(PrevSelected.suggestions)

\* Enter accepted a suggestion of a misspelling whose suggestions were still
\* missing when update started.
C33_Witness ==
    /\ op = "accept_suggestion"
    /\ ~failed
    /\ prev.selected_misspelling # None
    /\ prev.selected_suggestion # None
    /\ args.misspellings[PrevIdx + 1].suggestions = <<>>
    /\ file_buffer # prev.file_buffer


\* C34: with a non-empty misspelling list and no selection,
\* select_previous_misspelling selects the last index N - 1, symmetric to
\* select_next_misspelling selecting the first index.
C34_PreviousFromNoneSelectsLast ==
    (op = "select_previous_misspelling" /\ ~failed
       /\ prev.selected_misspelling = None /\ prev.misspellings # <<>>) =>
      selected_misspelling = Some(Len(prev.misspellings) - 1)


\* C35: for a misspelling with at least one suggestion,
\* get_previous_suggestion_index returns an index of the list for every
\* current selection, an out-of-range Some(idx) included, and on an index of
\* the list it is the inverse of get_next_suggestion_index.
C35_PreviousSuggestionIndexValid ==
    (op = "get_previous_suggestion_index" /\ args.suggestions # <<>>) =>
        LET n == Len(args.suggestions)
            m == WithSuggestions(n)
            c == args.current_selection
        IN  /\ ret # None
            /\ Unwrap(ret) < n
            /\ (c # None /\ Unwrap(c) < n) =>
                  /\ get_next_suggestion_index(m, ret) = c
                  /\ get_previous_suggestion_index(
                        m, get_next_suggestion_index(m, c)) = c


C37_TrimmedAfterEveryInsertion ==
    op = "suggest_loop" =>
        /\ Len(ret) = Len(suggestion_dict)
        /\ \A k \in 1..Len(ret) :
             /\ ret[k].kept <= 10
             /\ ret[k].pushed <= 11
             /\ ret[k].kept <= ret[k].pushed

\* The eleventh different word was pushed and one entry popped at once, and
\* the corpus went on after it.
C37_Witness ==
    /\ op = "suggest_loop"
    /\ \E k \in 1..(Len(ret) - 1) :
         /\ ret[k].pushed = 11
         /\ ret[k].kept = 10
         /\ ret[k + 1].kept = 10


\* C38: the loop of search_for_word terminates for every non-empty
\* dictionary and every word: left <= right holds throughout, every
\* iteration strictly reduces right - left, left, right and middle stay
\* within 0..len - 1 (so middle - 1 never underflows), and the loop ends
\* with left = right after at most len - 1 iterations.
C38_SearchLoopTerminates ==
    (op = "search_for_word" /\ dict # <<>>) =>
        LET steps == ret.steps
            len   == Len(dict)
        IN  /\ ~failed
            /\ Len(steps) <= len - 1
            /\ steps # <<>> =>
                 /\ steps[1].left = 0
                 /\ steps[1].right = len - 1
                 /\ steps[Len(steps)].next_left = steps[Len(steps)].next_right
            /\ \A k \in 1..Len(steps) :
                 LET s == steps[k]
                 IN  /\ 0 <= s.left /\ s.left < s.right /\ s.right <= len - 1
                     /\ 1 <= s.middle /\ s.middle <= len - 1
                     /\ 0 <= s.next_left /\ s.next_left <= s.next_right
                     /\ s.next_right <= len - 1
                     /\ s.next_right - s.next_left < s.right - s.left
                     /\ k < Len(steps) =>
                          /\ steps[k + 1].left = s.next_left
                          /\ steps[k + 1].right = s.next_right

\* A search in five words went left, then right, and ended at the word.
C38_Witness ==
    /\ op = "search_for_word"
    /\ Len(dict) = 5
    /\ Len(ret.steps) >= 2
    /\ ret.steps[1].next_right = ret.steps[1].middle - 1
    /\ ret.steps[2].next_left = ret.steps[2].middle
    /\ ret.found # None


\* C39: with an empty dictionary is_word_correct returns false for every
\* word and search_for_word returns None, and neither fails.
C39_EmptyDictionaryFindsNothing ==
    dict = <<>> =>
        /\ op \in {"search_for_word", "is_word_correct"} => ~failed
        /\ op = "search_for_word" => ret = None
        /\ op = "is_word_correct" => ret = FALSE


\* C40: for a list of misspellings sorted ascending by start,
\* starts_misspelling(idx, list) is Some(i) only for an i with
\* list[i].start = idx, and None exactly when no entry starts at idx: for an
\* empty list, for a position strictly inside or at the end of a
\* misspelling where no other one starts, and for a position before the
\* first start.
C40_StartsMisspelling ==
    op = "starts_misspelling" =>
        LET ms     == args.misspellings
            idx    == args.idx
            starts == {k \in 1..Len(ms) : ms[k].start = idx}
        IN  /\ (ret = None) = (starts = {})
            /\ ret # None => (Unwrap(ret) + 1) \in starts
            /\ ms = <<>> => ret = None
            /\ (ms # <<>> /\ idx < ms[1].start) => ret = None

\* Of three misspellings the start of the second was found, and so not
\* taken for the end of the first.
C40_Witness ==
    /\ op = "starts_misspelling"
    /\ Len(args.misspellings) = 3
    /\ args.misspellings[1].end + 1 = args.idx
    /\ args.misspellings[3].start > args.idx
    /\ ret = Some(1)

====
